---- MODULE Spec2Model ----
(***************************************************************************)
(* Septago 7x7 crossword: the geometry (geometry.py), the reducer          *)
(* (engine.py) and the Streamlit consumer (app.py) as a state machine.     *)
(* Python lists are modelled as functions over 0..n-1 so that every index  *)
(* reads as it does in the source; dicts are functions over their keys; a  *)
(* payload value is a tagged record (absent key, int, str).                *)
(***************************************************************************)
EXTENDS Integers, Sequences, FiniteSets, TLC

VARIABLES
    game_state,   \* the live GameState of the session
    steps,        \* number of events reduced so far
    typed,        \* history: letters of the INPUT_LETTER events since init/reset
    prior,        \* history: the state a RESET replaced, with the letters that made it
    session_puzzle,   \* st.session_state.puzzle
    last_event_id,    \* st.session_state.last_event_id
    marks,            \* st.session_state.marks
    component_value,  \* the value the crossword component holds for the next run
    heap,             \* the list and dict objects allocated so far, by address
    live,             \* the addresses the live state's grid_cells, hidden_cells, active hold
    snapshots         \* history: every state handed to reduce, with what it read then

\* The consumer's part of the state, which the reducer alone never touches
consumer_vars == <<session_puzzle, last_event_id, marks, component_value>>

\* The objects behind the states.  Only the specification of the snapshots
\* (SpecObjects) follows them; the others start without objects and allocate none
memory_vars == <<heap, live, snapshots>>

vars == <<game_state, steps, typed, prior, consumer_vars, memory_vars>>

\* ------------------------------------------------------------------ bounds

\* Number of events reduced in one session.
MaxSteps == 3

\* ------------------------------------------------------- python values

Absent == [tag |-> "absent"]

None == [tag |-> "none"]

IntV(n) == [tag |-> "int", v |-> n]

StrV(s) == [tag |-> "str", v |-> s]

Max(a, b) == IF a >= b THEN a ELSE b

Min(a, b) == IF a <= b THEN a ELSE b

\* len() of a list modelled as a function over 0..n-1
LenL(l) == Cardinality(DOMAIN l)

\* Mutant: one copy too many
Repeat_OneMore(x, n) == [i \in 0..n |-> x]

\* A list of n copies of x
Repeat(x, n) == [i \in 0..(n - 1) |-> x]

\* ---------------------------------------------------------------- strings

Whitespace == {" "}

Digits == {"0", "1", "2", "3", "4", "5", "6", "7", "8", "9"}

UpperAZ == {"A", "B", "C", "D", "E", "F", "G", "H", "I", "J", "K", "L", "M",
            "N", "O", "P", "Q", "R", "S", "T", "U", "V", "W", "X", "Y", "Z"}

LowerToUpper == [c \in {"a", "b", "c", "m", "z"} |->
                    CASE c = "a" -> "A" [] c = "b" -> "B" [] c = "c" -> "C"
                      [] c = "m" -> "M" [] c = "z" -> "Z"]

\* Mutant: upper() left out
StrUpper_Identity(s) == s

\* str.upper() on a sequence of characters
StrUpper(s) == [i \in DOMAIN s |->
                  IF s[i] \in DOMAIN LowerToUpper THEN LowerToUpper[s[i]] ELSE s[i]]

RECURSIVE LStrip(_)
LStrip(s) == IF s # <<>> /\ Head(s) \in Whitespace THEN LStrip(Tail(s)) ELSE s

RECURSIVE RStrip(_)
RStrip(s) == IF s # <<>> /\ s[Len(s)] \in Whitespace
             THEN RStrip(SubSeq(s, 1, Len(s) - 1)) ELSE s

\* str.strip()
StrStrip(s) == RStrip(LStrip(s))

DigitVal == [c \in Digits |->
               CASE c = "0" -> 0 [] c = "1" -> 1 [] c = "2" -> 2 [] c = "3" -> 3
                 [] c = "4" -> 4 [] c = "5" -> 5 [] c = "6" -> 6 [] c = "7" -> 7
                 [] c = "8" -> 8 [] c = "9" -> 9]

RECURSIVE DigitsValue(_)
DigitsValue(s) == IF s = <<>> THEN 0
                  ELSE 10 * DigitsValue(SubSeq(s, 1, Len(s) - 1)) + DigitVal[s[Len(s)]]

\* int(x): [ok, v]; ok = FALSE where Python raises
PyInt(x) ==
    IF x.tag = "int" THEN [ok |-> TRUE, v |-> x.v]
    ELSE IF x.tag = "str"
    THEN LET t == StrStrip(x.v)
             neg == t # <<>> /\ Head(t) = "-"
             d == IF t # <<>> /\ Head(t) \in {"-", "+"} THEN Tail(t) ELSE t
         IN  IF d # <<>> /\ \A i \in DOMAIN d : d[i] \in Digits
             THEN [ok |-> TRUE, v |-> IF neg THEN 0 - DigitsValue(d) ELSE DigitsValue(d)]
             ELSE [ok |-> FALSE, v |-> 0]
    ELSE [ok |-> FALSE, v |-> 0]

\* --------------------------------------------------------------- geometry

size == 7

playable_rows == {1, 3, 5}

playable_cols == {1, 3, 5}

GRID_ORDER == <<"h1", "h2", "h3", "v1", "v2", "v3">>

GridBarIds == {GRID_ORDER[k] : k \in DOMAIN GRID_ORDER}

playable_mask == [r \in 0..(size - 1) |-> [c \in 0..(size - 1) |->
                     (r \in playable_rows) \/ (c \in playable_cols)]]

\* Mutant: the vertical bars start one row down, so that index 0 of a column
\* lies on row 1
bars_RowsFromOne ==
    [bid \in GridBarIds |->
        CASE bid = "h1" -> [c \in 0..(size - 1) |-> <<1, c>>]
          [] bid = "h2" -> [c \in 0..(size - 1) |-> <<3, c>>]
          [] bid = "h3" -> [c \in 0..(size - 1) |-> <<5, c>>]
          [] bid = "v1" -> [r \in 0..(size - 1) |-> <<r + 1, 1>>]
          [] bid = "v2" -> [r \in 0..(size - 1) |-> <<r + 1, 3>>]
          [] bid = "v3" -> [r \in 0..(size - 1) |-> <<r + 1, 5>>]]

\* Bar -> ordered list of cells <<row, col>>
bars == [bid \in GridBarIds |->
           CASE bid = "h1" -> [c \in 0..(size - 1) |-> <<1, c>>]
             [] bid = "h2" -> [c \in 0..(size - 1) |-> <<3, c>>]
             [] bid = "h3" -> [c \in 0..(size - 1) |-> <<5, c>>]
             [] bid = "v1" -> [r \in 0..(size - 1) |-> <<r, 1>>]
             [] bid = "v2" -> [r \in 0..(size - 1) |-> <<r, 3>>]
             [] bid = "v3" -> [r \in 0..(size - 1) |-> <<r, 5>>]]

\* Every (bar_id, index) in the order the builder visits them
RECURSIVE PositionsFrom(_, _)
PositionsFrom(k, i) ==
    IF k > Len(GRID_ORDER) THEN <<>>
    ELSE IF i >= LenL(bars[GRID_ORDER[k]]) THEN PositionsFrom(k + 1, 0)
    ELSE <<<<GRID_ORDER[k], i>>>> \o PositionsFrom(k, i + 1)

AllPositions == PositionsFrom(1, 0)

Cells == {bars[bid][i] : bid \in GridBarIds, i \in 0..(size - 1)}

IsAt(cell, p) == bars[p[1]][p[2]] = cell

\* Cell -> list of (bar_id, index), in insertion order
cell_to_positions == [cell \in Cells |->
                        SelectSeq(AllPositions, LAMBDA p : IsAt(cell, p))]

CrossKeys == {p \in {AllPositions[k] : k \in DOMAIN AllPositions} :
                 Len(cell_to_positions[bars[p[1]][p[2]]]) = 2}

\* Mutant: every key is sent to the first position of its cell
cross_map_FirstOnly == [p \in CrossKeys |-> cell_to_positions[bars[p[1]][p[2]]][1]]

\* (bar_id, index) -> (bar_id, index) at the cells with two positions
cross_map == [p \in CrossKeys |->
                LET pos_list == cell_to_positions[bars[p[1]][p[2]]]
                IN  IF pos_list[1] = p THEN pos_list[2] ELSE pos_list[1]]

\* Mutant: the columns are the outer loop
intersections_ColumnMajor ==
    [k \in 0..8 |->
        <<(<<"h1", "h2", "h3">>)[(k % 3) + 1], (<<1, 3, 5>>)[(k \div 3) + 1]>>]

\* Canonical intersection order (0-based list)
intersections == [k \in 0..8 |->
                    <<(<<"h1", "h2", "h3">>)[(k \div 3) + 1], (<<1, 3, 5>>)[(k % 3) + 1]>>]

bar_lengths == [bid \in GridBarIds |-> LenL(bars[bid])]

\* ----------------------------------------------------------------- engine

\* Mutant: every bar reads across
_bar_direction_AlwaysHorizontal(bar_id) == "horizontal"

_bar_direction(bar_id) ==
    IF bar_id \in {"h1", "h2", "h3"} THEN "horizontal"
    ELSE IF bar_id \in {"v1", "v2", "v3"} THEN "vertical"
    ELSE "horizontal"

\* Mutant: the cells are not looked at
_first_empty_index_Zero(cells) == 0

_first_empty_index(cells) ==
    IF \E i \in DOMAIN cells : cells[i] = ""
    THEN CHOOSE i \in DOMAIN cells :
            cells[i] = "" /\ \A j \in DOMAIN cells : cells[j] = "" => i <= j
    ELSE 0

derive_intersection_letters(state) ==
    [k \in DOMAIN intersections |->
        LET bar_id == intersections[k][1]
            idx == intersections[k][2]
        IN  IF bar_id \in DOMAIN state.grid_cells
            THEN state.grid_cells[bar_id][idx] ELSE Repeat("", 1)[idx]]

\* Mutant: the hidden bars are not looked at
is_complete_GridOnly(state) ==
    \A bid \in DOMAIN state.grid_cells :
        \A i \in DOMAIN state.grid_cells[bid] : state.grid_cells[bid][i] # ""

is_complete(state) ==
    /\ \A bid \in DOMAIN state.grid_cells :
          \A i \in DOMAIN state.grid_cells[bid] : state.grid_cells[bid][i] # ""
    /\ \A hid \in DOMAIN state.hidden_cells :
          \A i \in DOMAIN state.hidden_cells[hid] : state.hidden_cells[hid][i] # ""

\* f"hidden{i}"
HiddenId(i) == "hidden" \o ToString(i)

\* Mutant: the keys come last first
HiddenKeys_Reversed(hidden_cells) ==
    [i \in 1..Cardinality(DOMAIN hidden_cells) |->
        HiddenId(Cardinality(DOMAIN hidden_cells) + 1 - i)]

\* Keys of hidden_cells in dict (insertion) order: hidden1, hidden2, ...
HiddenKeys(hidden_cells) ==
    [i \in 1..Cardinality(DOMAIN hidden_cells) |-> HiddenId(i)]

DefaultActive == [scope |-> "grid", bar_id |-> "h1", index |-> 0,
                  direction |-> "horizontal"]

\* puzzle: [meta_id, filename, hidden]; uuid, now: what uuid4() and time() return
init_state(puzzle, uuid, now) ==
    LET grid_cells == [bid \in GridBarIds |-> Repeat("", bar_lengths[bid])]
        hidden_answers == IF puzzle.hidden = <<>> THEN <<<<>>>> ELSE puzzle.hidden
        hidden_cells == [hid \in {HiddenId(i) : i \in DOMAIN hidden_answers} |->
                            Repeat("", Len(hidden_answers[
                                CHOOSE i \in DOMAIN hidden_answers : HiddenId(i) = hid]))]
        hkeys == HiddenKeys(hidden_cells)
        clue_order ==
            [k \in DOMAIN GRID_ORDER |->
                [scope |-> "grid", bar_id |-> GRID_ORDER[k],
                 length |-> bar_lengths[GRID_ORDER[k]]]]
            \o [k \in DOMAIN hkeys |->
                [scope |-> "hidden", bar_id |-> hkeys[k],
                 length |-> LenL(hidden_cells[hkeys[k]])]]
    IN  [puzzle_id |-> IF puzzle.meta_id.tag = "absent" THEN puzzle.filename
                       ELSE puzzle.meta_id.v,
         state_id |-> uuid,
         grid_cells |-> grid_cells,
         hidden_cells |-> hidden_cells,
         active |-> DefaultActive,
         clue_order |-> clue_order,
         start_time |-> now,
         last_client_seq |-> 0,
         last_action |-> "init"]

\* Mutant: the upper end is not enforced
_clamp_NoUpper(i, lo, hi) == Max(lo, i)

_clamp(i, lo, hi) == Max(lo, Min(hi, i))

\* Mutant: an unknown bar_id is taken as it is
_on_set_active_NoBarFallback(state, payload) ==
    LET scope0 == IF payload.scope.tag = "absent" THEN "grid" ELSE payload.scope.v
        bar_id == IF payload.bar_id.tag = "absent" THEN "h1" ELSE payload.bar_id.v
        idx_raw == payload.index
        scope == IF scope0 \notin {"grid", "hidden"} THEN "grid" ELSE scope0
        all_cells == IF scope = "grid" THEN state.grid_cells ELSE state.hidden_cells
        cells == IF bar_id \in DOMAIN all_cells THEN all_cells[bar_id] ELSE <<>>
        direction == IF scope = "grid" THEN _bar_direction(bar_id) ELSE "horizontal"
        parsed == PyInt(idx_raw)
        idx == IF idx_raw.tag = "absent" THEN _first_empty_index(cells)
               ELSE _clamp(IF parsed.ok THEN parsed.v ELSE 0, 0, Max(0, LenL(cells) - 1))
    IN  [state EXCEPT !.active = [scope |-> scope, bar_id |-> bar_id, index |-> idx,
                                  direction |-> direction],
                      !.last_action = "set_active"]

_on_set_active(state, payload) ==
    LET scope0 == IF payload.scope.tag = "absent" THEN "grid" ELSE payload.scope.v
        bar_id0 == IF payload.bar_id.tag = "absent" THEN "h1" ELSE payload.bar_id.v
        idx_raw == payload.index
        scope == IF scope0 \notin {"grid", "hidden"} THEN "grid" ELSE scope0
        hkeys == HiddenKeys(state.hidden_cells)
        bar_id == IF scope = "grid"
                  THEN (IF bar_id0 \notin DOMAIN state.grid_cells THEN "h1" ELSE bar_id0)
                  ELSE (IF bar_id0 \notin DOMAIN state.hidden_cells
                        THEN (IF hkeys # <<>> THEN hkeys[1] ELSE "hidden1")
                        ELSE bar_id0)
        cells == IF scope = "grid" THEN state.grid_cells[bar_id]
                 ELSE (IF bar_id \in DOMAIN state.hidden_cells
                       THEN state.hidden_cells[bar_id] ELSE <<>>)
        direction == IF scope = "grid" THEN _bar_direction(bar_id) ELSE "horizontal"
        parsed == PyInt(idx_raw)
        idx == IF idx_raw.tag = "absent" THEN _first_empty_index(cells)
               ELSE _clamp(IF parsed.ok THEN parsed.v ELSE 0, 0, Max(0, LenL(cells) - 1))
    IN  [state EXCEPT !.active = [scope |-> scope, bar_id |-> bar_id, index |-> idx,
                                  direction |-> direction],
                      !.last_action = "set_active"]

ActiveCells(state) ==
    LET a == state.active
    IN  IF a.scope = "grid"
        THEN (IF a.bar_id \in DOMAIN state.grid_cells
              THEN state.grid_cells[a.bar_id] ELSE <<>>)
        ELSE (IF a.bar_id \in DOMAIN state.hidden_cells
              THEN state.hidden_cells[a.bar_id] ELSE <<>>)

\* Mutant: the new index is not clamped to the bar
_on_move_Unclamped(state, step) ==
    LET cells == ActiveCells(state)
    IN  IF LenL(cells) = 0 THEN [state EXCEPT !.last_action = "move:empty"]
        ELSE [state EXCEPT !.active.index = state.active.index + step,
                           !.last_action = "move"]

\* Mutant: the cursor wraps around at the ends of the bar
_on_move_Wrap(state, step) ==
    LET cells == ActiveCells(state)
    IN  IF LenL(cells) = 0 THEN [state EXCEPT !.last_action = "move:empty"]
        ELSE [state EXCEPT !.active.index = (state.active.index + step) % LenL(cells),
                           !.last_action = "move"]

_on_move(state, step) ==
    LET idx == state.active.index
        cells == ActiveCells(state)
        nxt == _clamp(idx + step, 0, LenL(cells) - 1)
    IN  IF LenL(cells) = 0 THEN [state EXCEPT !.last_action = "move:empty"]
        ELSE IF nxt = idx THEN [state EXCEPT !.last_action = "move:edge"]
        ELSE [state EXCEPT !.active.index = nxt, !.last_action = "move"]

\* str(payload.get("letter", "")).upper().strip()
NormLetter(payload) ==
    StrStrip(StrUpper(IF payload.letter.tag = "absent" THEN <<>> ELSE payload.letter.v))

\* Mutant: any single character is taken
ValidLetter_AnySingle(letter) == Len(letter) = 1

ValidLetter(letter) == Len(letter) = 1 /\ letter[1] \in UpperAZ

\* Mutant: the partner position is not written
WriteCross_NoLink(new_grid, bar_id, idx, ch) == new_grid

\* The cross-link write of _on_input_letter
WriteCross(new_grid, bar_id, idx, ch) ==
    IF <<bar_id, idx>> \in DOMAIN cross_map
    THEN LET other_bar == cross_map[<<bar_id, idx>>][1]
             other_idx == cross_map[<<bar_id, idx>>][2]
             other_arr == IF other_bar \in DOMAIN new_grid THEN new_grid[other_bar]
                          ELSE Repeat("", bar_lengths[other_bar])
         IN  IF 0 <= other_idx /\ other_idx < LenL(other_arr)
             THEN [x \in (DOMAIN new_grid) \cup {other_bar} |->
                     IF x = other_bar THEN [other_arr EXCEPT ![other_idx] = ch]
                     ELSE new_grid[x]]
             ELSE new_grid
    ELSE new_grid

_on_input_letter(state, payload) ==
    LET letter == NormLetter(payload)
        a == state.active
        scope == a.scope
        bar_id == a.bar_id
        idx == a.index
    IN  IF ~ValidLetter(letter) THEN [state EXCEPT !.last_action = "input:ignored"]
        ELSE IF scope = "hidden"
        THEN IF bar_id \notin DOMAIN state.hidden_cells
             THEN [state EXCEPT !.last_action = "input:hidden_missing"]
             ELSE IF idx < 0 \/ idx >= LenL(state.hidden_cells[bar_id])
             THEN [state EXCEPT !.last_action = "input:oob"]
             ELSE _on_move([state EXCEPT !.hidden_cells[bar_id][idx] = letter[1],
                                         !.last_action = "input:hidden"], 1)
        ELSE IF bar_id \notin DOMAIN state.grid_cells
             THEN [state EXCEPT !.last_action = "input:grid_missing"]
             ELSE IF idx < 0 \/ idx >= LenL(state.grid_cells[bar_id])
             THEN [state EXCEPT !.last_action = "input:oob"]
             ELSE LET new_grid == [state.grid_cells EXCEPT ![bar_id][idx] = letter[1]]
                  IN  _on_move([state EXCEPT
                                  !.grid_cells = WriteCross(new_grid, bar_id, idx, letter[1]),
                                  !.last_action = "input:grid"], 1)

\* Mutant: the whole bar is cleared
clear_at_WholeBar(b, i, grid_cells) ==
    LET a2 == IF b \in DOMAIN grid_cells THEN grid_cells[b] ELSE Repeat("", bar_lengths[b])
    IN  IF 0 <= i /\ i < LenL(a2)
        THEN [x \in (DOMAIN grid_cells) \cup {b} |->
                IF x = b THEN [j \in DOMAIN a2 |-> ""] ELSE grid_cells[x]]
        ELSE grid_cells

\* Mutant: nothing is cleared
clear_at_Keep(b, i, grid_cells) == grid_cells

clear_at(b, i, grid_cells) ==
    LET a2 == IF b \in DOMAIN grid_cells THEN grid_cells[b] ELSE Repeat("", bar_lengths[b])
    IN  IF 0 <= i /\ i < LenL(a2)
        THEN [x \in (DOMAIN grid_cells) \cup {b} |->
                IF x = b THEN [a2 EXCEPT ![i] = ""] ELSE grid_cells[x]]
        ELSE grid_cells

\* Mutant: the partner position is not cleared
clear_with_partner_NoPartner(b, i, grid_cells) == clear_at(b, i, grid_cells)

clear_with_partner(b, i, grid_cells) ==
    LET out == clear_at(b, i, grid_cells)
    IN  IF <<b, i>> \in DOMAIN cross_map
        THEN clear_at(cross_map[<<b, i>>][1], cross_map[<<b, i>>][2], out)
        ELSE out

_on_backspace(state) ==
    LET a == state.active
        scope == a.scope
        bar_id == a.bar_id
    IN  IF scope = "hidden"
        THEN IF bar_id \notin DOMAIN state.hidden_cells
             THEN [state EXCEPT !.last_action = "bksp:hidden_missing"]
             ELSE LET arr == state.hidden_cells[bar_id]
                      idx == _clamp(a.index, 0, LenL(arr) - 1)
                  IN  IF LenL(arr) = 0
                      THEN [state EXCEPT !.last_action = "bksp:hidden_empty"]
                      ELSE IF arr[idx] # ""
                      THEN [state EXCEPT !.hidden_cells[bar_id][idx] = "",
                                         !.last_action = "bksp:hidden_clear"]
                      ELSE IF idx > 0
                      THEN [state EXCEPT !.hidden_cells[bar_id][idx - 1] = "",
                                         !.active.index = idx - 1,
                                         !.last_action = "bksp:hidden_prev_clear"]
                      ELSE [state EXCEPT !.last_action = "bksp:hidden_edge"]
        ELSE IF bar_id \notin DOMAIN state.grid_cells
             THEN [state EXCEPT !.last_action = "bksp:grid_missing"]
             ELSE LET arr == state.grid_cells[bar_id]
                      idx == _clamp(a.index, 0, LenL(arr) - 1)
                  IN  IF LenL(arr) = 0
                      THEN [state EXCEPT !.last_action = "bksp:grid_empty"]
                      ELSE IF arr[idx] # ""
                      THEN [state EXCEPT
                              !.grid_cells = clear_with_partner(bar_id, idx, state.grid_cells),
                              !.last_action = "bksp:grid_clear"]
                      ELSE IF idx > 0
                      THEN [state EXCEPT
                              !.grid_cells = clear_with_partner(bar_id, idx - 1, state.grid_cells),
                              !.active.index = idx - 1,
                              !.last_action = "bksp:grid_prev_clear"]
                      ELSE [state EXCEPT !.last_action = "bksp:grid_edge"]

\* Mutant: the hidden bars are dropped
_on_reset_DropsHidden(state, uuid, now) ==
    [state EXCEPT
        !.state_id = uuid,
        !.grid_cells = [bid \in DOMAIN state.grid_cells |->
                           [i \in DOMAIN state.grid_cells[bid] |-> ""]],
        !.hidden_cells = [hid \in {} |-> <<>>],
        !.active = DefaultActive,
        !.start_time = now,
        !.last_client_seq = 0,
        !.last_action = "reset"]

\* Mutant: the hidden bars are not cleared
_on_reset_KeepsHidden(state, uuid, now) ==
    [state EXCEPT
        !.state_id = uuid,
        !.grid_cells = [bid \in DOMAIN state.grid_cells |->
                           [i \in DOMAIN state.grid_cells[bid] |-> ""]],
        !.active = DefaultActive,
        !.start_time = now,
        !.last_client_seq = 0,
        !.last_action = "reset"]

\* Mutant: last_client_seq is carried over
_on_reset_KeepsSeq(state, uuid, now) ==
    [state EXCEPT
        !.state_id = uuid,
        !.grid_cells = [bid \in DOMAIN state.grid_cells |->
                           [i \in DOMAIN state.grid_cells[bid] |-> ""]],
        !.hidden_cells = [hid \in DOMAIN state.hidden_cells |->
                             [i \in DOMAIN state.hidden_cells[hid] |-> ""]],
        !.active = DefaultActive,
        !.start_time = now,
        !.last_action = "reset"]

\* Mutant: the cursor is left where it was
_on_reset_KeepsCursor(state, uuid, now) ==
    [state EXCEPT
        !.state_id = uuid,
        !.grid_cells = [bid \in DOMAIN state.grid_cells |->
                           [i \in DOMAIN state.grid_cells[bid] |-> ""]],
        !.hidden_cells = [hid \in DOMAIN state.hidden_cells |->
                             [i \in DOMAIN state.hidden_cells[hid] |-> ""]],
        !.start_time = now,
        !.last_client_seq = 0,
        !.last_action = "reset"]

_on_reset(state, uuid, now) ==
    [state EXCEPT
        !.state_id = uuid,
        !.grid_cells = [bid \in DOMAIN state.grid_cells |->
                           [i \in DOMAIN state.grid_cells[bid] |-> ""]],
        !.hidden_cells = [hid \in DOMAIN state.hidden_cells |->
                             [i \in DOMAIN state.hidden_cells[hid] |-> ""]],
        !.active = DefaultActive,
        !.start_time = now,
        !.last_client_seq = 0,
        !.last_action = "reset"]

\* Mutant: an unrecognized type falls through to the reset handler
Dispatch_UnknownResets(state, event, uuid, now) ==
    LET t == event.type
        payload == event.payload
    IN  CASE t = "INPUT_LETTER" -> _on_input_letter(state, payload)
          [] t = "MOVE_NEXT" -> _on_move(state, 1)
          [] t = "MOVE_PREV" -> _on_move(state, -1)
          [] t = "SET_ACTIVE_BAR" -> _on_set_active(state, payload)
          [] t = "BACKSPACE" -> _on_backspace(state)
          [] t = "TICK" -> state
          [] OTHER -> _on_reset(state, uuid, now)

\* The type-specific transition of reduce
Dispatch(state, event, uuid, now) ==
    LET t == event.type
        payload == event.payload
    IN  CASE t = "INPUT_LETTER" -> _on_input_letter(state, payload)
          [] t = "MOVE_NEXT" -> _on_move(state, 1)
          [] t = "MOVE_PREV" -> _on_move(state, -1)
          [] t = "SET_ACTIVE_BAR" -> _on_set_active(state, payload)
          [] t = "BACKSPACE" -> _on_backspace(state)
          [] t = "RESET" -> _on_reset(state, uuid, now)
          [] t = "TICK" -> state
          [] OTHER -> [state EXCEPT !.last_action = "ignored:" \o t]

\* Mutant: client_seq is never read
ClientSeqInt_Dropped(payload) == [ok |-> FALSE, v |-> 0]

\* int(client_seq) if client_seq is not None, None where it is absent or int() raises
ClientSeqInt(payload) ==
    IF payload.client_seq.tag = "absent" THEN [ok |-> FALSE, v |-> 0]
    ELSE PyInt(payload.client_seq)

\* Mutant: a numeric client_seq is stored without comparing it
reduce_AlwaysSet(state, event, uuid, now) ==
    LET client_seq_int == ClientSeqInt(event.payload)
        out == Dispatch(state, event, uuid, now)
    IN  IF client_seq_int.ok
        THEN [out EXCEPT !.last_client_seq = client_seq_int.v]
        ELSE out

reduce(state, event, uuid, now) ==
    LET client_seq_int == ClientSeqInt(event.payload)
        out == Dispatch(state, event, uuid, now)
    IN  IF client_seq_int.ok /\ client_seq_int.v > out.last_client_seq
        THEN [out EXCEPT !.last_client_seq = client_seq_int.v]
        ELSE out

\* ------------------------------------------- objects and references (engine)
\*
\* The handlers again, this time as the statements they execute on the list
\* and dict objects behind a state: which objects they allocate, which they
\* copy and which they write into.  A state holds the addresses of its
\* grid_cells dict, hidden_cells dict and active dict; a dict of bars holds
\* the addresses of its lists.

\* Operands: a local variable, a field of the state under construction, an
\* item of a dict
Loc(name) == [at |-> "local", name |-> name]

Fld(name) == [at |-> "field", name |-> name]

Itm(of, key) == [at |-> "item", of |-> of, key |-> key]

\* to = list(src)
ListCopy(to, src) == [op |-> "list", to |-> to, src |-> src]

\* to = dict(src)
DictCopy(to, src) == [op |-> "dict", to |-> to, src |-> src]

\* to = a list comprehension or a dict literal of plain values
NewObject(to, value) == [op |-> "new", to |-> to, value |-> value]

\* to = a dict whose values are the objects of the locals named in items
NewDict(to, items) == [op |-> "newdict", to |-> to, items |-> items]

\* of[key] = value, value a str or an int
SetItem(of, key, value) == [op |-> "setitem", of |-> of, key |-> key, value |-> value]

\* of[key] = src, src an object
SetRef(of, key, src) == [op |-> "setref", of |-> of, key |-> key, src |-> src]

\* replace(state, field=local, ...), or the GameState(...) constructor
Replace(fields) == [op |-> "replace", fields |-> fields]

\* Mutant: list(x) hands back x itself
PyList_Alias(objects, addr) == [heap |-> objects, at |-> addr]

\* list(x): a new list with the items of x
PyList(objects, addr) == [heap |-> Append(objects, objects[addr]), at |-> Len(objects) + 1]

\* dict(x): a new dict with the items of x (the values are shared)
PyDict(objects, addr) == [heap |-> Append(objects, objects[addr]), at |-> Len(objects) + 1]

\* obj[key] = value
Put(obj, key, value) ==
    [k \in (DOMAIN obj) \cup {key} |-> IF k = key THEN value ELSE obj[k]]

RECURSIVE Resolve(_, _)
\* The address an operand denotes in memory m = [heap, env, state]
Resolve(m, operand) ==
    CASE operand.at = "local" -> m.env[operand.name]
      [] operand.at = "field" -> m.state[operand.name]
      [] operand.at = "item" -> m.heap[Resolve(m, operand.of)][operand.key]

Bind(m, name, made) ==
    [m EXCEPT !.heap = made.heap, !.env = Put(m.env, name, made.at)]

\* One statement
Exec1(m, st) ==
    CASE st.op = "list" -> Bind(m, st.to, PyList(m.heap, Resolve(m, st.src)))
      [] st.op = "dict" -> Bind(m, st.to, PyDict(m.heap, Resolve(m, st.src)))
      [] st.op = "new" ->
            Bind(m, st.to, [heap |-> Append(m.heap, st.value), at |-> Len(m.heap) + 1])
      [] st.op = "newdict" ->
            Bind(m, st.to, [heap |-> Append(m.heap, [k \in DOMAIN st.items |-> m.env[st.items[k]]]),
                            at |-> Len(m.heap) + 1])
      [] st.op = "setitem" ->
            [m EXCEPT !.heap[Resolve(m, st.of)] = Put(@, st.key, st.value)]
      [] st.op = "setref" ->
            [m EXCEPT !.heap[Resolve(m, st.of)] = Put(@, st.key, Resolve(m, st.src))]
      [] st.op = "replace" ->
            [m EXCEPT !.state = [f \in DOMAIN m.state |->
                                    IF f \in DOMAIN st.fields THEN m.env[st.fields[f]]
                                    ELSE m.state[f]]]

RECURSIVE Exec(_, _)
\* The statements one after the other
Exec(m, stmts) ==
    IF stmts = <<>> THEN m ELSE Exec(Exec1(m, Head(stmts)), Tail(stmts))

\* What a holder of the addresses refs reads
View(objects, refs) ==
    [grid_cells |-> [b \in DOMAIN objects[refs.grid_cells] |->
                        objects[objects[refs.grid_cells][b]]],
     hidden_cells |-> [b \in DOMAIN objects[refs.hidden_cells] |->
                        objects[objects[refs.hidden_cells][b]]],
     active |-> objects[refs.active]]

\* {key: [...] for key in keys}: the lists, each under the local named as its key
NewLists(keys, cells) == [k \in DOMAIN keys |-> NewObject(keys[k], cells[keys[k]])]

SameName(keys) == [k \in {keys[i] : i \in DOMAIN keys} |-> k]

init_state_stmts(puzzle) ==
    LET made == init_state(puzzle, 1, 0)
        hkeys == HiddenKeys(made.hidden_cells)
    IN  NewLists(GRID_ORDER, made.grid_cells)
        \o <<NewDict("grid_cells", SameName(GRID_ORDER))>>
        \o NewLists(hkeys, made.hidden_cells)
        \o <<NewDict("hidden_cells", SameName(hkeys)),
             NewObject("active", made.active),
             Replace([grid_cells |-> "grid_cells", hidden_cells |-> "hidden_cells",
                      active |-> "active"])>>

NoObjects == [heap |-> <<>>, env |-> <<>>,
              state |-> [grid_cells |-> 0, hidden_cells |-> 0, active |-> 0]]

_on_set_active_stmts(state, payload) ==
    <<NewObject("new_active", _on_set_active(state, payload).active),
      Replace([active |-> "new_active"])>>

_on_move_stmts(state, step) ==
    LET idx == state.active.index
        cells == ActiveCells(state)
        nxt == _clamp(idx + step, 0, LenL(cells) - 1)
    IN  IF LenL(cells) = 0 THEN <<>>
        ELSE IF nxt = idx THEN <<>>
        ELSE <<DictCopy("new_active", Fld("active")),
               SetItem(Loc("new_active"), "index", nxt),
               Replace([active |-> "new_active"])>>

\* The cross-link write of _on_input_letter
WriteCross_stmts(state, bar_id, idx, ch) ==
    IF <<bar_id, idx>> \in DOMAIN cross_map
    THEN LET other_bar == cross_map[<<bar_id, idx>>][1]
             other_idx == cross_map[<<bar_id, idx>>][2]
         IN  <<ListCopy("other_arr", Itm(Loc("new_grid"), other_bar))>>
             \o (IF 0 <= other_idx /\ other_idx < LenL(state.grid_cells[other_bar])
                 THEN <<SetItem(Loc("other_arr"), other_idx, ch),
                        SetRef(Loc("new_grid"), other_bar, Loc("other_arr"))>>
                 ELSE <<>>)
    ELSE <<>>

_on_input_letter_stmts(state, payload) ==
    LET letter == NormLetter(payload)
        a == state.active
        scope == a.scope
        bar_id == a.bar_id
        idx == a.index
    IN  IF ~ValidLetter(letter) THEN <<>>
        ELSE IF scope = "hidden"
        THEN IF bar_id \notin DOMAIN state.hidden_cells THEN <<>>
             ELSE <<ListCopy("arr", Itm(Fld("hidden_cells"), bar_id))>>
                  \o (IF idx < 0 \/ idx >= LenL(state.hidden_cells[bar_id]) THEN <<>>
                      ELSE <<SetItem(Loc("arr"), idx, letter[1]),
                             DictCopy("new_hidden", Fld("hidden_cells")),
                             SetRef(Loc("new_hidden"), bar_id, Loc("arr")),
                             Replace([hidden_cells |-> "new_hidden"])>>
                           \o _on_move_stmts(state, 1))
        ELSE IF bar_id \notin DOMAIN state.grid_cells THEN <<>>
             ELSE <<ListCopy("arr", Itm(Fld("grid_cells"), bar_id))>>
                  \o (IF idx < 0 \/ idx >= LenL(state.grid_cells[bar_id]) THEN <<>>
                      ELSE <<SetItem(Loc("arr"), idx, letter[1]),
                             DictCopy("new_grid", Fld("grid_cells")),
                             SetRef(Loc("new_grid"), bar_id, Loc("arr"))>>
                           \o WriteCross_stmts(state, bar_id, idx, letter[1])
                           \o <<Replace([grid_cells |-> "new_grid"])>>
                           \o _on_move_stmts(state, 1))

\* clear_at called with the dict that src denotes; its result is the local out
clear_at_stmts(state, b, i, src) ==
    <<DictCopy("out", src), ListCopy("a2", Itm(Loc("out"), b))>>
    \o (IF 0 <= i /\ i < LenL(state.grid_cells[b])
        THEN <<SetItem(Loc("a2"), i, ""), SetRef(Loc("out"), b, Loc("a2"))>>
        ELSE <<>>)

clear_with_partner_stmts(state, b, i, src) ==
    clear_at_stmts(state, b, i, src)
    \o (IF <<b, i>> \in DOMAIN cross_map
        THEN clear_at_stmts(state, cross_map[<<b, i>>][1], cross_map[<<b, i>>][2], Loc("out"))
        ELSE <<>>)

_on_backspace_stmts(state) ==
    LET a == state.active
        scope == a.scope
        bar_id == a.bar_id
    IN  IF scope = "hidden"
        THEN IF bar_id \notin DOMAIN state.hidden_cells THEN <<>>
             ELSE LET arr == state.hidden_cells[bar_id]
                      idx == _clamp(a.index, 0, LenL(arr) - 1)
                  IN  <<ListCopy("arr", Itm(Fld("hidden_cells"), bar_id))>>
                      \o (IF LenL(arr) = 0 THEN <<>>
                          ELSE IF arr[idx] # ""
                          THEN <<SetItem(Loc("arr"), idx, ""),
                                 DictCopy("new_hidden", Fld("hidden_cells")),
                                 SetRef(Loc("new_hidden"), bar_id, Loc("arr")),
                                 Replace([hidden_cells |-> "new_hidden"])>>
                          ELSE IF idx > 0
                          THEN <<SetItem(Loc("arr"), idx - 1, ""),
                                 DictCopy("new_hidden", Fld("hidden_cells")),
                                 SetRef(Loc("new_hidden"), bar_id, Loc("arr")),
                                 DictCopy("new_active", Fld("active")),
                                 SetItem(Loc("new_active"), "index", idx - 1),
                                 Replace([hidden_cells |-> "new_hidden",
                                          active |-> "new_active"])>>
                          ELSE <<>>)
        ELSE IF bar_id \notin DOMAIN state.grid_cells THEN <<>>
             ELSE LET arr == state.grid_cells[bar_id]
                      idx == _clamp(a.index, 0, LenL(arr) - 1)
                  IN  <<ListCopy("arr", Itm(Fld("grid_cells"), bar_id))>>
                      \o (IF LenL(arr) = 0 THEN <<>>
                          ELSE IF arr[idx] # ""
                          THEN clear_with_partner_stmts(state, bar_id, idx, Fld("grid_cells"))
                               \o <<Replace([grid_cells |-> "out"])>>
                          ELSE IF idx > 0
                          THEN clear_with_partner_stmts(state, bar_id, idx - 1,
                                                        Fld("grid_cells"))
                               \o <<DictCopy("new_active", Fld("active")),
                                    SetItem(Loc("new_active"), "index", idx - 1),
                                    Replace([grid_cells |-> "out",
                                             active |-> "new_active"])>>
                          ELSE <<>>)

_on_reset_stmts(state) ==
    LET hkeys == HiddenKeys(state.hidden_cells)
        blank(cells) == [b \in DOMAIN cells |-> [i \in DOMAIN cells[b] |-> ""]]
    IN  NewLists(GRID_ORDER, blank(state.grid_cells))
        \o <<NewDict("new_grid", SameName(GRID_ORDER))>>
        \o NewLists(hkeys, blank(state.hidden_cells))
        \o <<NewDict("new_hidden", SameName(hkeys)),
             NewObject("new_active", DefaultActive),
             Replace([grid_cells |-> "new_grid", hidden_cells |-> "new_hidden",
                      active |-> "new_active"])>>

\* The statements of reduce on the objects; TICK, an unknown type and the
\* client_seq update allocate and write nothing
reduce_stmts(state, event) ==
    LET payload == event.payload
        t == event.type
    IN  CASE t = "INPUT_LETTER" -> _on_input_letter_stmts(state, payload)
          [] t = "MOVE_NEXT" -> _on_move_stmts(state, 1)
          [] t = "MOVE_PREV" -> _on_move_stmts(state, -1)
          [] t = "SET_ACTIVE_BAR" -> _on_set_active_stmts(state, payload)
          [] t = "BACKSPACE" -> _on_backspace_stmts(state)
          [] t = "RESET" -> _on_reset_stmts(state)
          [] OTHER -> <<>>

\* ----------------------------------------------------------------- inputs

\* Validated puzzles: one or two hidden answers, meta id present or not
Puzzles ==
    {[meta_id |-> StrV("p1"), filename |-> "p1.json",
      answers |-> [bid \in GridBarIds |-> <<"A", "M", "A", "M", "A", "M", "A">>],
      hidden |-> <<<<"A", "C", "T">>>>],
     [meta_id |-> Absent, filename |-> "p2.json",
      answers |-> [bid \in GridBarIds |-> <<"A", "M", "A", "M", "A", "M", "A">>],
      hidden |-> <<<<"A", "C", "T">>, <<"Z", "A">>>>]}

\* What time() may return once the state's start_time was read from it
ClockFrom(t) == {t, t + 1}

LetterValues == {Absent, StrV(<<>>), StrV(<<"a">>), StrV(<<"Z">>), StrV(<<" ", "z">>),
                 StrV(<<"1">>), StrV(<<" ">>), StrV(<<"a", "b">>)}

\* (scope, bar_id) of a SET_ACTIVE_BAR payload: every existing bar, then the
\* payloads that need a fallback
TargetValues ==
    {<<StrV("grid"), StrV(bid)>> : bid \in GridBarIds}
    \cup {<<StrV("hidden"), StrV("hidden1")>>, <<StrV("hidden"), StrV("hidden2")>>,
          <<Absent, Absent>>, <<StrV("zz"), StrV("v1")>>,
          <<StrV("grid"), StrV("zz")>>, <<StrV("hidden"), StrV("zz")>>}

IndexValues == {Absent, IntV(-1), IntV(1), IntV(3), IntV(9), StrV(<<"x">>)}

SeqValues == {Absent, StrV(<<"x">>), IntV(0), IntV(1)}

UnknownTypes == {"FOO"}

NoPayload == [letter |-> Absent, scope |-> Absent, bar_id |-> Absent,
              index |-> Absent, client_seq |-> Absent]

Event(t, payload) == [type |-> t, payload |-> payload]

\* ------------------------------------------------------------ transitions

NoPrior == [set |-> FALSE]

\* {"grid": {}, "hidden": {}}
NoMarks == [grid |-> <<>>, hidden |-> <<>>]

\* The session once a puzzle is loaded and before the component sent a value
InitSession ==
    /\ \E puzzle \in Puzzles :
          /\ game_state = init_state(puzzle, 1, 0)
          /\ session_puzzle = puzzle
    /\ steps = 0
    /\ typed = <<>>
    /\ prior = NoPrior
    /\ last_event_id = None
    /\ marks = NoMarks
    /\ component_value = None
    /\ snapshots = <<>>

\* The session with the objects of its state left out
Init ==
    /\ InitSession
    /\ heap = NoObjects.heap
    /\ live = NoObjects.state

\* The session with the objects init_state allocated
InitObjects ==
    /\ InitSession
    /\ heap = Exec(NoObjects, init_state_stmts(session_puzzle)).heap
    /\ live = Exec(NoObjects, init_state_stmts(session_puzzle)).state

\* reduce on the live state.  uuid4() returns an id not issued before; now is
\* what time() returns if the handler reads the clock.
Reduced(event, now) == reduce(game_state, event, game_state.state_id + 1, now)

\* A reduction without a clock reading
After(event) == Reduced(event, game_state.start_time)

CanReduce == steps < MaxSteps

Step(event, now) ==
    /\ CanReduce
    /\ game_state' = Reduced(event, now)
    /\ steps' = steps + 1
    /\ UNCHANGED <<typed, prior, consumer_vars, memory_vars>>

InputLetterEvents ==
    {Event("INPUT_LETTER", [NoPayload EXCEPT !.letter = letter, !.client_seq = seq]) :
        letter \in LetterValues, seq \in SeqValues}

SetActiveBarEvents ==
    {Event("SET_ACTIVE_BAR", [NoPayload EXCEPT !.scope = target[1], !.bar_id = target[2],
                                                !.index = index, !.client_seq = seq]) :
        target \in TargetValues, index \in IndexValues, seq \in SeqValues}

\* The events with no payload beyond client_seq
PlainEvents(types) ==
    {Event(t, [NoPayload EXCEPT !.client_seq = seq]) : t \in types, seq \in SeqValues}

InputLetter == \E event \in InputLetterEvents : Step(event, game_state.start_time)

MoveNext == \E event \in PlainEvents({"MOVE_NEXT"}) : Step(event, game_state.start_time)

MovePrev == \E event \in PlainEvents({"MOVE_PREV"}) : Step(event, game_state.start_time)

SetActiveBar == \E event \in SetActiveBarEvents : Step(event, game_state.start_time)

Backspace == \E event \in PlainEvents({"BACKSPACE"}) : Step(event, game_state.start_time)

Reset ==
    \E event \in PlainEvents({"RESET"}), now \in ClockFrom(game_state.start_time) :
        Step(event, now)

Tick == \E event \in PlainEvents({"TICK"}) : Step(event, game_state.start_time)

Unrecognized == \E event \in PlainEvents(UnknownTypes) : Step(event, game_state.start_time)

Next ==
    \/ InputLetter
    \/ MoveNext
    \/ MovePrev
    \/ SetActiveBar
    \/ Backspace
    \/ Reset
    \/ Tick
    \/ Unrecognized

Spec == Init /\ [][Next]_vars

\* ----------------------------------------------- reset and replay (history)

\* Longest letter sequence typed before and after the reset
MaxTyped == 2

RoundTripLetters == {StrV(<<"a">>), StrV(<<"Z">>), StrV(<<"1">>)}

RoundTripSeqs == {Absent, IntV(1)}

\* An INPUT_LETTER event on a state made of INPUT_LETTER events only
RoundTripInput ==
    \E letter \in RoundTripLetters, seq \in RoundTripSeqs :
        /\ Len(typed) < MaxTyped
        /\ game_state' = After(Event("INPUT_LETTER",
                                     [NoPayload EXCEPT !.letter = letter, !.client_seq = seq]))
        /\ typed' = Append(typed, letter)
        /\ steps' = steps + 1
        /\ UNCHANGED <<prior, consumer_vars, memory_vars>>

\* RESET of such a state, which is kept as the prior state
RoundTripReset ==
    \E seq \in RoundTripSeqs, now \in ClockFrom(game_state.start_time) :
        /\ ~prior.set
        /\ game_state' = Reduced(Event("RESET", [NoPayload EXCEPT !.client_seq = seq]), now)
        /\ prior' = [set |-> TRUE, grid_cells |-> game_state.grid_cells,
                     hidden_cells |-> game_state.hidden_cells,
                     state_id |-> game_state.state_id, typed |-> typed]
        /\ typed' = <<>>
        /\ steps' = steps + 1
        /\ UNCHANGED <<consumer_vars, memory_vars>>

NextRoundTrip ==
    \/ RoundTripInput
    \/ RoundTripReset

SpecRoundTrip == Init /\ [][NextRoundTrip]_vars

\* ------------------------------------------------- editing session (deeper)

\* Number of events reduced in one editing session.
MaxEdits == 5

EditLetters == {StrV(<<"a">>), StrV(<<"c">>), StrV(<<"m">>)}

\* SET_ACTIVE_BAR payloads of the session: an intersection of h1 by index, the
\* hidden bars without index
EditTargets ==
    {[NoPayload EXCEPT !.scope = StrV("grid"), !.bar_id = StrV("h1"), !.index = IntV(3)],
     [NoPayload EXCEPT !.scope = StrV("hidden"), !.bar_id = StrV("hidden1")],
     [NoPayload EXCEPT !.scope = StrV("hidden"), !.bar_id = StrV("hidden2")]}

EditStep(event) ==
    /\ steps < MaxEdits
    /\ game_state' = After(event)
    /\ steps' = steps + 1
    /\ UNCHANGED <<typed, prior, consumer_vars, memory_vars>>

EditInput ==
    \E letter \in EditLetters :
        EditStep(Event("INPUT_LETTER", [NoPayload EXCEPT !.letter = letter]))

EditSetActive == \E payload \in EditTargets : EditStep(Event("SET_ACTIVE_BAR", payload))

EditMoveNext == EditStep(Event("MOVE_NEXT", NoPayload))

EditMovePrev == EditStep(Event("MOVE_PREV", NoPayload))

EditBackspace == EditStep(Event("BACKSPACE", NoPayload))

NextEdit ==
    \/ EditInput
    \/ EditSetActive
    \/ EditMoveNext
    \/ EditMovePrev
    \/ EditBackspace

SpecEdit == Init /\ [][NextEdit]_vars

\* ------------------------------------------- solving session (bar by bar)

\* Number of RESET events in one solving session.
MaxResets == 1

ActiveBarFull == \A i \in DOMAIN ActiveCells(game_state) : ActiveCells(game_state)[i] # ""

\* The solver types a letter at the cursor
FillInput ==
    /\ game_state' = After(Event("INPUT_LETTER", [NoPayload EXCEPT !.letter = StrV(<<"a">>)]))
    /\ UNCHANGED <<steps, typed, prior, consumer_vars, memory_vars>>

\* With the active bar full, the solver picks a bar of the clue list
FillNextBar ==
    \E k \in DOMAIN game_state.clue_order :
        /\ ActiveBarFull
        /\ game_state' = After(Event("SET_ACTIVE_BAR",
                [NoPayload EXCEPT !.scope = StrV(game_state.clue_order[k].scope),
                                  !.bar_id = StrV(game_state.clue_order[k].bar_id)]))
        /\ UNCHANGED <<steps, typed, prior, consumer_vars, memory_vars>>

\* With the active bar full, the solver takes the letter under the cursor back
FillBackspace ==
    /\ ActiveBarFull
    /\ game_state' = After(Event("BACKSPACE", NoPayload))
    /\ UNCHANGED <<steps, typed, prior, consumer_vars, memory_vars>>

\* The solver starts over; state_id counts the resets
FillReset ==
    \E now \in ClockFrom(game_state.start_time) :
        /\ game_state.state_id <= MaxResets
        /\ game_state' = Reduced(Event("RESET", NoPayload), now)
        /\ UNCHANGED <<steps, typed, prior, consumer_vars, memory_vars>>

NextFill ==
    \/ FillInput
    \/ FillNextBar
    \/ FillBackspace
    \/ FillReset

SpecFill == Init /\ [][NextFill]_vars

\* ------------------------------------------- snapshots (objects, references)

\* reduce on the objects of the live state: its statements run on the heap,
\* the caller keeps its reference to the state it handed in
ReduceObjects(event) ==
    /\ CanReduce
    /\ \E m \in {Exec([heap |-> heap, env |-> <<>>, state |-> live],
                      reduce_stmts(game_state, event))} :
          /\ heap' = m.heap
          /\ live' = m.state
    /\ snapshots' = Append(snapshots, [refs |-> live, read |-> View(heap, live)])
    /\ game_state' = After(event)
    /\ steps' = steps + 1
    /\ UNCHANGED <<typed, prior, consumer_vars>>

EditEvents ==
    {Event("INPUT_LETTER", [NoPayload EXCEPT !.letter = letter]) :
        letter \in {StrV(<<"a">>), StrV(<<"1">>)}}
    \cup {Event("BACKSPACE", NoPayload)}

CursorEvents ==
    {Event("MOVE_NEXT", [NoPayload EXCEPT !.client_seq = IntV(1)]),
     Event("MOVE_PREV", NoPayload),
     Event("SET_ACTIVE_BAR", [NoPayload EXCEPT !.scope = StrV("grid"),
                                               !.bar_id = StrV("v1"), !.index = IntV(1)]),
     Event("SET_ACTIVE_BAR", [NoPayload EXCEPT !.scope = StrV("hidden"),
                                               !.bar_id = StrV("hidden1")])}

EditObjects == \E event \in EditEvents : ReduceObjects(event)

CursorObjects == \E event \in CursorEvents : ReduceObjects(event)

ResetObjects == ReduceObjects(Event("RESET", NoPayload))

SameObjects == \E t \in {"TICK"} \cup UnknownTypes : ReduceObjects(Event(t, NoPayload))

NextObjects ==
    \/ EditObjects
    \/ CursorObjects
    \/ ResetObjects
    \/ SameObjects

SpecObjects == InitObjects /\ [][NextObjects]_vars

\* ------------------------------------------------ the consumer (app.py)

\* Component events sent in one session.
MaxEvents == 2

\* str.upper() of a cell value
UpperCh(ch) == IF ch \in DOMAIN LowerToUpper THEN LowerToUpper[ch] ELSE ch

\* answer[i].upper() if i < len(answer) else ""
ExpectedAt(answer, i) == IF i < Len(answer) THEN UpperCh(answer[i + 1]) ELSE ""

\* "correct" if got and got == expected else "wrong"
Mark(ch, expected) ==
    IF UpperCh(ch) # "" /\ UpperCh(ch) = expected THEN "correct" ELSE "wrong"

\* int(bar_id.replace("hidden", "")) - 1, or 0 where int() raises
_get_hidden_answer(puzzle, bar_id) ==
    LET hidden == puzzle.hidden
        idx == IF \E i \in 1..2 : bar_id = HiddenId(i)
               THEN (CHOOSE i \in 1..2 : bar_id = HiddenId(i)) - 1
               ELSE 0
    IN  IF 0 <= idx /\ idx < Len(hidden) THEN hidden[idx + 1] ELSE <<>>

\* The marks of one bar's cells against its answer
BarMarks(arr, answer) == [i \in DOMAIN arr |-> Mark(arr[i], ExpectedAt(answer, i))]

\* The marks _check_word stores: those of the active bar only, or the marks
\* as they were where the bar has no answer.  A grid mark is keyed by its cell
\* (the source's key is the string "row,col").
_check_word(puzzle, state, old_marks) ==
    LET a == state.active
        bar_id == a.bar_id
    IN  IF a.scope = "hidden"
        THEN LET answer == _get_hidden_answer(puzzle, bar_id)
                 arr == IF bar_id \in DOMAIN state.hidden_cells
                        THEN state.hidden_cells[bar_id] ELSE <<>>
             IN  IF answer = <<>> THEN old_marks
                 ELSE [grid |-> <<>>,
                       hidden |-> [b \in {bar_id} |-> BarMarks(arr, answer)]]
        ELSE LET answer == IF bar_id \in DOMAIN puzzle.answers
                           THEN puzzle.answers[bar_id] ELSE <<>>
                 cells == IF bar_id \in DOMAIN bars THEN bars[bar_id] ELSE <<>>
                 arr == IF bar_id \in DOMAIN state.grid_cells
                        THEN state.grid_cells[bar_id] ELSE Repeat("", 1)
             IN  IF answer = <<>> THEN old_marks
                 ELSE [grid |-> [cell \in {cells[i] : i \in DOMAIN cells} |->
                                   LET i == CHOOSE j \in DOMAIN cells : cells[j] = cell
                                   IN  Mark(arr[i], ExpectedAt(answer, i))],
                       hidden |-> <<>>]

\* The marks _check_puzzle stores: every grid cell (where two bars share a
\* cell the later bar of h1, h2, h3, v1, v2, v3 writes last) and every hidden
\* bar that has an answer
_check_puzzle(puzzle, state) ==
    [grid |-> [cell \in Cells |->
                 LET pos_list == cell_to_positions[cell]
                     p == pos_list[Len(pos_list)]
                 IN  Mark(state.grid_cells[p[1]][p[2]],
                          ExpectedAt(puzzle.answers[p[1]], p[2]))],
     hidden |-> [hid \in {h \in DOMAIN state.hidden_cells :
                            _get_hidden_answer(puzzle, h) # <<>>} |->
                   BarMarks(state.hidden_cells[hid], _get_hidden_answer(puzzle, hid))]]

\* st.session_state as one value
Session == [game_state |-> game_state, puzzle |-> session_puzzle,
            last_event_id |-> last_event_id, marks |-> marks]

\* bool(ev_id): None and the empty string are falsy
Truthy(ev_id) == ev_id \notin {Absent, None, StrV("")}

\* Mutant: no stamp is stale
IsStale_Never(ev_state_id, cur_state_id) == FALSE

\* ev_state_id is not None and cur_state_id is not None
\* and ev_state_id != cur_state_id
IsStale(ev_state_id, cur_state_id) ==
    ev_state_id \notin {Absent, None} /\ ev_state_id.v # cur_state_id

\* Mutant: BACKSPACE is left out
EditTypes_NoBackspace == {"INPUT_LETTER", "RESET"}

EditTypes == {"INPUT_LETTER", "BACKSPACE", "RESET"}

\* ev_id and ev_id != st.session_state.last_event_id
IsNewEvent(ev_id, last_id) == Truthy(ev_id) /\ ev_id # last_id

\* The block that processes the component's value
ProcessEvent(ss, event, now) ==
    IF event = None \/ event.schema_version # "crossword.v2" THEN ss
    ELSE IF ~IsNewEvent(event.event_id, ss.last_event_id) THEN ss
    ELSE IF IsStale(event.payload.state_id, ss.game_state.state_id)
    THEN [ss EXCEPT !.last_event_id = event.event_id]
    ELSE [ss EXCEPT
            !.last_event_id = event.event_id,
            !.game_state = reduce(ss.game_state, Event(event.type, event.payload),
                                  ss.game_state.state_id + 1, now),
            !.marks = IF event.type \in EditTypes THEN NoMarks ELSE ss.marks]

\* The block of the Load puzzle button
LoadClicked(ss, chosen, now) ==
    [game_state |-> init_state(chosen, ss.game_state.state_id + 1, now),
     puzzle |-> chosen, last_event_id |-> None, marks |-> NoMarks]

\* The block of the Reset button
ResetClicked(ss, now) ==
    [ss EXCEPT
        !.game_state = reduce(ss.game_state, Event("RESET", NoPayload),
                              ss.game_state.state_id + 1, now),
        !.last_event_id = None,
        !.marks = NoMarks]

NoClicks == [load |-> None, reset |-> FALSE, check |-> "none"]

\* The check buttons' blocks
Checked(ss, check) ==
    CASE check = "word" ->
            [ss EXCEPT !.marks = _check_word(ss.puzzle, ss.game_state, ss.marks)]
      [] check = "puzzle" ->
            [ss EXCEPT !.marks = _check_puzzle(ss.puzzle, ss.game_state)]
      [] OTHER -> ss

\* The stamps a frontend may put in payload.state_id: none, or a state_id it
\* was given in the props of this or of an earlier generation
Stamps == {Absent} \cup {IntV(n) : n \in 1..game_state.state_id}

AppPayload(letter, scope, bar_id, stamp) ==
    [letter |-> letter, scope |-> scope, bar_id |-> bar_id, index |-> Absent,
     client_seq |-> Absent, state_id |-> stamp]

ComponentEvent(schema_version, ev_id, t, payload) ==
    [schema_version |-> schema_version, event_id |-> ev_id, type |-> t, payload |-> payload]

\* The payloads the frontend sends, by event type
TypedPayloads(stamp) ==
    {<<"INPUT_LETTER", AppPayload(StrV(<<"a">>), Absent, Absent, stamp)>>,
     <<"BACKSPACE", AppPayload(Absent, Absent, Absent, stamp)>>,
     <<"RESET", AppPayload(Absent, Absent, Absent, stamp)>>,
     <<"MOVE_NEXT", AppPayload(Absent, Absent, Absent, stamp)>>,
     <<"SET_ACTIVE_BAR", AppPayload(Absent, StrV("hidden"), StrV("hidden1"), stamp)>>}

\* The k-th value of the component: an event with an event_id of its own
IdentifiedEvents(k) ==
    {ComponentEvent("crossword.v2", StrV("e" \o ToString(k)), tp[1], tp[2]) :
        tp \in UNION {TypedPayloads(stamp) : stamp \in Stamps}}

\* A value the script must pass over: no event_id, an empty one, or another
\* schema_version
UnidentifiedEvents(k) ==
    {ComponentEvent("crossword.v2", Absent, "INPUT_LETTER",
                    AppPayload(StrV(<<"a">>), Absent, Absent, Absent)),
     ComponentEvent("crossword.v2", StrV(""), "RESET",
                    AppPayload(Absent, Absent, Absent, Absent)),
     ComponentEvent("crossword.v1", StrV("e" \o ToString(k)), "INPUT_LETTER",
                    AppPayload(StrV(<<"a">>), Absent, Absent, Absent))}

AppEvents(k) == IdentifiedEvents(k) \cup UnidentifiedEvents(k)

\* What time() may return in a run: the clock is read by the Load and Reset
\* buttons' blocks and by the reduction of a RESET event
ClockOf(clicks, event) ==
    IF clicks.load # None \/ clicks.reset \/ (event # None /\ event.type = "RESET")
    THEN ClockFrom(game_state.start_time)
    ELSE {game_state.start_time}

\* The session a run leaves, with the value the component holds after it
RunTo(ss, event) ==
    /\ game_state' = ss.game_state
    /\ session_puzzle' = ss.puzzle
    /\ last_event_id' = ss.last_event_id
    /\ marks' = ss.marks
    /\ component_value' = event
    /\ UNCHANGED <<typed, prior, memory_vars>>

\* One run of the script, block after block: the Load and Reset buttons,
\* the component's value, the checks; and after a check the run st.rerun()
\* starts, in which no button is down and the component hands over the value
\* it holds
main(clicks, event, now) ==
    \E loaded \in {IF clicks.load # None THEN LoadClicked(Session, clicks.load, now)
                   ELSE Session} :
    \E fresh \in {IF clicks.reset THEN ResetClicked(loaded, now) ELSE loaded} :
    \E processed \in {ProcessEvent(fresh, event, now)} :
    \E checked \in {Checked(processed, clicks.check)} :
    \E rerun \in {IF clicks.check = "none" THEN checked
                  ELSE ProcessEvent(checked, event, now)} :
        RunTo(rerun, event)

\* The check button that may have been pressed while a component value was
\* on its way, so that one run sees both
PendingClicks ==
    {NoClicks, [NoClicks EXCEPT !.check = "word"], [NoClicks EXCEPT !.check = "puzzle"]}

\* The frontend sets a new component value, which starts a run
ComponentSends ==
    \E event \in AppEvents(steps + 1), clicks \in PendingClicks :
        \E now \in ClockOf(clicks, event) :
            /\ steps < MaxEvents
            /\ main(clicks, event, now)
            /\ steps' = steps + 1

\* The buttons of the sidebar: Reset and Load puzzle (state_id counts the
\* generations), Check Word, Check Puzzle, and Instructions, whose run has
\* nothing to do but take the component's value
Buttons ==
    {[NoClicks EXCEPT !.reset = TRUE] : n \in {game_state.state_id} \cap (1..MaxResets)}
    \cup {[NoClicks EXCEPT !.load = chosen] :
            chosen \in {q \in Puzzles : game_state.state_id <= MaxResets}}
    \cup {[NoClicks EXCEPT !.check = "word"], [NoClicks EXCEPT !.check = "puzzle"], NoClicks}

\* A button starts a run; the component hands over the value it holds
ButtonPressed ==
    \E clicks \in Buttons :
        \E now \in ClockOf(clicks, component_value) :
            /\ main(clicks, component_value, now)
            /\ UNCHANGED steps

NextApp ==
    \/ ComponentSends
    \/ ButtonPressed

SpecApp == Init /\ [][NextApp]_vars

\* ------------------------------------------------------------------ claims

Cell(grid_cells, p) == grid_cells[p[1]][p[2]]

SomeLetterOnGrid == \E p \in DOMAIN cross_map : Cell(game_state.grid_cells, p) # ""

\* C1: in every reachable state the two positions of every cross_map pair
\* hold the same value.
C1_CrossLinkSync ==
    \A p \in DOMAIN cross_map :
        Cell(game_state.grid_cells, p) = Cell(game_state.grid_cells, cross_map[p])

\* A letter typed at an intersection stands at both positions.
C1_Witness ==
    /\ game_state.last_action = "move"
    /\ \E p \in DOMAIN cross_map :
          /\ p[1] = game_state.active.bar_id
          /\ p[2] = game_state.active.index - 1
          /\ Cell(game_state.grid_cells, p) \in UpperAZ
          /\ Cell(game_state.grid_cells, cross_map[p]) = Cell(game_state.grid_cells, p)

ActiveBarExists ==
    LET a == game_state.active
    IN  \/ a.scope = "grid" /\ a.bar_id \in DOMAIN game_state.grid_cells
        \/ a.scope = "hidden" /\ a.bar_id \in DOMAIN game_state.hidden_cells

\* C2: in every reachable state active.bar_id is a bar of active.scope and
\* 0 <= active.index <= length of that bar - 1.
C2_CursorValid ==
    /\ ActiveBarExists
    /\ 0 <= game_state.active.index
    /\ game_state.active.index <= LenL(ActiveCells(game_state)) - 1

\* SET_ACTIVE_BAR put the cursor on the last cell of a hidden bar, which in a
\* session this short only the too-large index does.
C2_Witness ==
    /\ game_state.last_action = "set_active"
    /\ game_state.active.scope = "hidden"
    /\ game_state.active.index = LenL(ActiveCells(game_state)) - 1

\* C3 as stated: no reduction of any event lowers last_client_seq.
C3_Original ==
    [][game_state'.last_client_seq >= game_state.last_client_seq]_vars

\* C3 amended: a reduction that keeps the generation (state_id), that is any
\* event but RESET, never lowers last_client_seq.
C3_MonotoneWithinGeneration ==
    [][game_state'.state_id = game_state.state_id
          => game_state'.last_client_seq >= game_state.last_client_seq]_vars

\* With last_client_seq at 1, events that carry client_seq 0 or none are
\* reduced and leave it at 1.
C3_Witness ==
    /\ CanReduce
    /\ game_state.last_client_seq = 1
    /\ After(Event("MOVE_NEXT", [NoPayload EXCEPT !.client_seq = IntV(0)])).last_client_seq = 1
    /\ After(Event("BACKSPACE", NoPayload)).last_client_seq = 1

NumericSeqEvents(events) == {e \in events : e.payload.client_seq.tag = "int"}

AllEvents ==
    InputLetterEvents \cup SetActiveBarEvents
    \cup PlainEvents({"MOVE_NEXT", "MOVE_PREV", "BACKSPACE", "RESET", "TICK"} \cup UnknownTypes)

\* C4 as stated: for every event with a numeric client_seq n the result's
\* last_client_seq is max(previous last_client_seq, n).
C4_Original ==
    CanReduce =>
        \A e \in NumericSeqEvents(AllEvents) :
            After(e).last_client_seq
                = Max(game_state.last_client_seq, e.payload.client_seq.v)

\* C4 amended: that holds for every event type but RESET; after RESET it is
\* max(0, n).
C4_SeqBookkeeping ==
    CanReduce =>
        \A e \in NumericSeqEvents(AllEvents) :
            After(e).last_client_seq
                = Max(IF e.type = "RESET" THEN 0 ELSE game_state.last_client_seq,
                      e.payload.client_seq.v)

\* A state with last_client_seq 1 in which an event carrying 0 is reduced.
C4_Witness ==
    /\ CanReduce
    /\ game_state.last_client_seq = 1
    /\ \E e \in NumericSeqEvents(SetActiveBarEvents) :
          /\ e.payload.client_seq.v = 0
          /\ After(e).last_action = "set_active"
          /\ After(e).last_client_seq = 1

InputOf(letter) == Event("INPUT_LETTER", [NoPayload EXCEPT !.letter = StrV(letter)])

AtH1Index1 ==
    /\ CanReduce
    /\ game_state.active.scope = "grid"
    /\ game_state.active.bar_id = "h1"
    /\ game_state.active.index = 1

\* C5 as stated: h1[1] is cross-linked to v1[0], and INPUT_LETTER("Z") with
\* the cursor at h1 index 1 sets h1[1] and v1[0] to "Z".
C5_Original ==
    AtH1Index1 =>
        /\ cross_map[<<"h1", 1>>] = <<"v1", 0>>
        /\ After(InputOf(<<"Z">>)).grid_cells["h1"][1] = "Z"
        /\ After(InputOf(<<"Z">>)).grid_cells["v1"][0] = "Z"

\* C5 amended: h1[1] is cross-linked to v1[1], and INPUT_LETTER("Z") with the
\* cursor at h1 index 1 sets h1[1] and v1[1] to "Z" (v1[0] is not written).
C5_ScenarioB ==
    AtH1Index1 =>
        /\ <<"h1", 1>> \in DOMAIN cross_map
        /\ cross_map[<<"h1", 1>>] = <<"v1", 1>>
        /\ After(InputOf(<<"Z">>)).grid_cells["h1"][1] = "Z"
        /\ After(InputOf(<<"Z">>)).grid_cells["v1"][1] = "Z"
        /\ After(InputOf(<<"Z">>)).grid_cells["v1"][0] = game_state.grid_cells["v1"][0]

\* "Z" was typed at h1 index 1: it stands at h1[1] and v1[1], v1[0] is empty.
C5_Witness ==
    /\ game_state.active = [scope |-> "grid", bar_id |-> "h1", index |-> 2,
                            direction |-> "horizontal"]
    /\ game_state.last_action = "move"
    /\ game_state.grid_cells["h1"][1] = "Z"
    /\ game_state.grid_cells["v1"][1] = "Z"
    /\ game_state.grid_cells["v1"][0] = ""

\* C6: reducing TICK changes nothing but last_client_seq; reducing an
\* unrecognized type changes nothing but last_client_seq and last_action.
C6_NoOpEvents ==
    CanReduce =>
        /\ \A e \in PlainEvents({"TICK"}) :
              [After(e) EXCEPT !.last_client_seq = game_state.last_client_seq] = game_state
        /\ \A e \in PlainEvents(UnknownTypes) :
              [After(e) EXCEPT !.last_client_seq = game_state.last_client_seq,
                               !.last_action = game_state.last_action] = game_state

\* An unrecognized event was reduced on a board that holds a letter, with the
\* cursor away from its initial place.
C6_Witness ==
    /\ game_state.last_action = "ignored:FOO"
    /\ game_state.active # DefaultActive
    /\ SomeLetterOnGrid

\* C7: a state made by INPUT_LETTER events alone, then RESET, then the same
\* letters again: grid_cells and hidden_cells are those of the prior state
\* and state_id is a different one.
C7_RoundTrip ==
    (prior.set /\ typed = prior.typed) =>
        /\ game_state.grid_cells = prior.grid_cells
        /\ game_state.hidden_cells = prior.hidden_cells
        /\ game_state.state_id # prior.state_id

\* Two letters were typed, the state was reset, and the two letters were typed again.
C7_Witness ==
    /\ prior.set
    /\ typed = prior.typed
    /\ Len(typed) = MaxTyped
    /\ game_state.grid_cells["h1"][1] \in UpperAZ

\* The letter each valid payload stands for
ExpectedLetter(letter) ==
    CASE letter = StrV(<<"a">>) -> "A"
      [] letter = StrV(<<"Z">>) -> "Z"
      [] letter = StrV(<<" ", "z">>) -> "Z"

ValidLetterEvents ==
    {e \in InputLetterEvents :
        e.payload.letter \in {StrV(<<"a">>), StrV(<<"Z">>), StrV(<<" ", "z">>)}}

InvalidLetterEvents == InputLetterEvents \ ValidLetterEvents

C9_InputAdvance ==
    CanReduce =>
        /\ \A e \in ValidLetterEvents :
              After(e).active =
                  [game_state.active EXCEPT
                      !.index = Min(game_state.active.index + 1,
                                    LenL(ActiveCells(game_state)) - 1)]
        /\ game_state.last_action = "init" =>
              /\ After(InputOf(<<"a">>)).grid_cells["h1"][0] = "A"
              /\ After(InputOf(<<"a">>)).active.index = 1

\* A letter was written at the last index of a bar and the cursor stayed there.
C9_Witness ==
    /\ game_state.last_action = "move:edge"
    /\ game_state.active.index = LenL(ActiveCells(game_state)) - 1
    /\ ActiveCells(game_state)[game_state.active.index] \in UpperAZ

\* C10: an INPUT_LETTER whose letter is missing, empty, a digit, a space or
\* several characters changes nothing but last_action and last_client_seq.
C10_InputRejected ==
    CanReduce =>
        \A e \in InvalidLetterEvents :
            [After(e) EXCEPT !.last_action = game_state.last_action,
                             !.last_client_seq = game_state.last_client_seq] = game_state

\* A rejected letter left a board that holds a letter as it was.
C10_Witness ==
    /\ game_state.last_action = "input:ignored"
    /\ SomeLetterOnGrid

MoveStep(e) == IF e.type = "MOVE_NEXT" THEN 1 ELSE -1

\* C11: MOVE_NEXT / MOVE_PREV from index i of a bar of length n give index
\* i+1 / i-1 clamped to [0, n-1]; scope, bar_id and direction are kept, and at
\* an edge (i = n-1 for MOVE_NEXT, i = 0 for MOVE_PREV) the index is unchanged.
C11_MoveClamped ==
    CanReduce =>
        \A e \in PlainEvents({"MOVE_NEXT", "MOVE_PREV"}) :
            LET i == game_state.active.index
                n == LenL(ActiveCells(game_state))
            IN  /\ After(e).active =
                      [game_state.active EXCEPT
                          !.index = Max(0, Min(n - 1, i + MoveStep(e)))]
                /\ (e.type = "MOVE_NEXT" /\ i = n - 1) => After(e).active.index = i
                /\ (e.type = "MOVE_PREV" /\ i = 0) => After(e).active.index = i
                /\ After(e).grid_cells = game_state.grid_cells
                /\ After(e).hidden_cells = game_state.hidden_cells

\* MOVE_NEXT was reduced with the cursor on the last, empty cell of a hidden
\* bar and the cursor stayed; from there MOVE_PREV steps back by one.
C11_Witness ==
    /\ CanReduce
    /\ game_state.last_action = "move:edge"
    /\ game_state.active.scope = "hidden"
    /\ game_state.active.index = LenL(ActiveCells(game_state)) - 1
    /\ ActiveCells(game_state)[game_state.active.index] = ""
    /\ After(Event("MOVE_PREV", NoPayload)).active.index = game_state.active.index - 1

\* A list given by its elements
ListOf(sq) == [i \in 0..(Len(sq) - 1) |-> sq[i + 1]]

\* The SET_ACTIVE_BAR events that carry no client_seq
UnsequencedSetActive == {e \in SetActiveBarEvents : e.payload.client_seq = Absent}

\* C12: SET_ACTIVE_BAR without index puts the cursor on the lowest index whose
\* cell is empty in the target bar (grid or hidden), or on 0 if the bar is
\* full; with an integer index it puts it on max(0, min(length-1, index));
\* hidden1 = ["A", "", "C"] without index gives index 1.
C12_SetActiveIndex ==
    /\ \A e \in UnsequencedSetActive :
          LET out == After(e)
              cells == ActiveCells(out)
              k == out.active.index
          IN  /\ e.payload.index = Absent =>
                    /\ k \in DOMAIN cells
                    /\ \A j \in DOMAIN cells : j < k => cells[j] # ""
                    /\ cells[k] = "" \/ (k = 0 /\ \A j \in DOMAIN cells : cells[j] # "")
              /\ e.payload.index.tag = "int" =>
                    k = Max(0, Min(LenL(cells) - 1, e.payload.index.v))
    /\ game_state.hidden_cells["hidden1"] = ListOf(<<"A", "", "C">>) =>
          After(Event("SET_ACTIVE_BAR",
                      [NoPayload EXCEPT !.scope = StrV("hidden"),
                                        !.bar_id = StrV("hidden1")])).active.index = 1

\* SET_ACTIVE_BAR without index was reduced on hidden1 = ["A", "", "C"] and
\* the cursor is on index 1.
C12_Witness ==
    /\ game_state.last_action = "set_active"
    /\ game_state.hidden_cells["hidden1"] = ListOf(<<"A", "", "C">>)
    /\ game_state.active = [scope |-> "hidden", bar_id |-> "hidden1", index |-> 1,
                            direction |-> "horizontal"]

FilledUnderCursor == ActiveCells(game_state)[game_state.active.index] # ""

\* C14: BACKSPACE with a letter in the active cell empties that cell and, in
\* grid scope, its cross_map partner if it has one; scope, bar_id and index of
\* the cursor stay.  At h1 index 3 holding "M" it clears h1[3] and v2[1] and
\* the index stays 3.
C14_BackspaceFilled ==
    /\ FilledUnderCursor =>
          LET a == game_state.active
              out == After(Event("BACKSPACE", NoPayload))
          IN  /\ out.active = a
              /\ ActiveCells(out)[a.index] = ""
              /\ (a.scope = "grid" /\ <<a.bar_id, a.index>> \in DOMAIN cross_map) =>
                    Cell(out.grid_cells, cross_map[<<a.bar_id, a.index>>]) = ""
    /\ (/\ game_state.active.scope = "grid"
        /\ game_state.active.bar_id = "h1"
        /\ game_state.active.index = 3
        /\ game_state.grid_cells["h1"][3] = "M") =>
          LET out == After(Event("BACKSPACE", NoPayload))
          IN  /\ out.grid_cells["h1"][3] = ""
              /\ out.grid_cells["v2"][1] = ""
              /\ out.active.index = 3

\* BACKSPACE was reduced with the cursor at h1 index 3, an intersection: the
\* cell and its partner v2[1] are empty, the letter typed after them at
\* h1[4] still stands, and the cursor is where it was.
C14_Witness ==
    /\ game_state.last_action = "bksp:grid_clear"
    /\ game_state.active = [scope |-> "grid", bar_id |-> "h1", index |-> 3,
                            direction |-> "horizontal"]
    /\ game_state.grid_cells["h1"][3] = ""
    /\ game_state.grid_cells["v2"][1] = ""
    /\ game_state.grid_cells["h1"][4] = "M"

\* scope and bar_id a SET_ACTIVE_BAR payload asks for
AskedScope(e) == IF e.payload.scope = Absent THEN "grid" ELSE e.payload.scope.v

AskedBar(e) == IF e.payload.bar_id = Absent THEN "h1" ELSE e.payload.bar_id.v

SetActiveOf(scope, bar_id) ==
    Event("SET_ACTIVE_BAR", [NoPayload EXCEPT !.scope = StrV(scope), !.bar_id = StrV(bar_id)])

\* C13: SET_ACTIVE_BAR treats a scope that is neither grid nor hidden as grid;
\* in grid scope an unknown bar_id becomes h1; in hidden scope an unknown
\* bar_id becomes the first hidden bar in creation order, hidden1; the
\* resulting active always names an existing bar of the resulting scope.
C13_SetActiveFallbacks ==
    CanReduce =>
        \A e \in UnsequencedSetActive :
            LET a == After(e).active
                first_hidden == game_state.clue_order[Len(GRID_ORDER) + 1]
            IN  /\ a.scope = IF AskedScope(e) = "hidden" THEN "hidden" ELSE "grid"
                /\ a.scope = "grid" =>
                      /\ a.bar_id = IF AskedBar(e) \in GridBarIds THEN AskedBar(e) ELSE "h1"
                      /\ a.bar_id \in DOMAIN After(e).grid_cells
                /\ a.scope = "hidden" =>
                      /\ a.bar_id = IF AskedBar(e) \in DOMAIN game_state.hidden_cells
                                    THEN AskedBar(e) ELSE "hidden1"
                      /\ first_hidden.scope = "hidden"
                      /\ AskedBar(e) \notin DOMAIN game_state.hidden_cells =>
                            a.bar_id = first_hidden.bar_id
                      /\ a.bar_id \in DOMAIN After(e).hidden_cells

\* With two hidden bars and the cursor on hidden2, an unknown hidden bar_id
\* leads to hidden1, an unknown grid bar_id to h1, and an unknown scope with
\* bar v1 to the grid bar v1.
C13_Witness ==
    /\ CanReduce
    /\ game_state.active.scope = "hidden"
    /\ game_state.active.bar_id = "hidden2"
    /\ After(SetActiveOf("hidden", "zz")).active.bar_id = "hidden1"
    /\ After(SetActiveOf("grid", "zz")).active.bar_id = "h1"
    /\ After(SetActiveOf("zz", "v1")).active.scope = "grid"
    /\ After(SetActiveOf("zz", "v1")).active.bar_id = "v1"

EmptyUnderCursor == ActiveCells(game_state)[game_state.active.index] = ""

\* C15: BACKSPACE with an empty active cell and index > 0 moves the cursor to
\* index-1 and empties that cell (with its cross_map partner in grid scope),
\* whatever it held; with an empty active cell and index 0 it leaves
\* grid_cells, hidden_cells and active as they are; the same in grid and in
\* hidden scope, where there is no partner.
C15_BackspaceEmpty ==
    (CanReduce /\ EmptyUnderCursor) =>
        \A e \in PlainEvents({"BACKSPACE"}) :
            LET a == game_state.active
                out == After(e)
            IN  IF a.index > 0
                THEN /\ out.active = [a EXCEPT !.index = a.index - 1]
                     /\ ActiveCells(out)[a.index - 1] = ""
                     /\ (a.scope = "grid" /\ <<a.bar_id, a.index - 1>> \in DOMAIN cross_map) =>
                           Cell(out.grid_cells, cross_map[<<a.bar_id, a.index - 1>>]) = ""
                     /\ a.scope = "hidden" => out.grid_cells = game_state.grid_cells
                ELSE /\ out.grid_cells = game_state.grid_cells
                     /\ out.hidden_cells = game_state.hidden_cells
                     /\ out.active = a

\* The cursor is on an empty cell of a grid bar, the cell before it is an
\* intersection that holds a letter at both positions; BACKSPACE steps back
\* and empties both.
C15_Witness ==
    /\ CanReduce
    /\ EmptyUnderCursor
    /\ game_state.active.scope = "grid"
    /\ game_state.active.index > 0
    /\ <<game_state.active.bar_id, game_state.active.index - 1>> \in DOMAIN cross_map
    /\ ActiveCells(game_state)[game_state.active.index - 1] \in UpperAZ
    /\ Cell(game_state.grid_cells,
            cross_map[<<game_state.active.bar_id, game_state.active.index - 1>>]) \in UpperAZ
    /\ After(Event("BACKSPACE", NoPayload)).active.index = game_state.active.index - 1
    /\ ActiveCells(After(Event("BACKSPACE", NoPayload)))[game_state.active.index - 1] = ""
    /\ Cell(After(Event("BACKSPACE", NoPayload)).grid_cells,
            cross_map[<<game_state.active.bar_id, game_state.active.index - 1>>]) = ""

AllEmpty(cells_of) == \A b \in DOMAIN cells_of : \A i \in DOMAIN cells_of[b] : cells_of[b][i] = ""

SameShape(new_cells, old_cells) ==
    /\ DOMAIN new_cells = DOMAIN old_cells
    /\ \A b \in DOMAIN old_cells : DOMAIN new_cells[b] = DOMAIN old_cells[b]

\* C16: RESET on any reachable state gives a state in which every grid cell
\* and every hidden cell is empty, every bar has the length it had, active is
\* {grid, h1, 0, horizontal}, state_id is not the previous state_id and
\* puzzle_id is the previous puzzle_id.
C16_ResetBoard ==
    CanReduce =>
        \A e \in PlainEvents({"RESET"}), now \in ClockFrom(game_state.start_time) :
            LET out == Reduced(e, now)
            IN  /\ AllEmpty(out.grid_cells)
                /\ AllEmpty(out.hidden_cells)
                /\ SameShape(out.grid_cells, game_state.grid_cells)
                /\ SameShape(out.hidden_cells, game_state.hidden_cells)
                /\ out.active = [scope |-> "grid", bar_id |-> "h1", index |-> 0,
                                 direction |-> "horizontal"]
                /\ out.state_id # game_state.state_id
                /\ out.puzzle_id = game_state.puzzle_id

\* The cursor is in a hidden bar that holds a letter; RESET empties the bar
\* and puts the cursor back on h1 index 0.
C16_Witness ==
    /\ CanReduce
    /\ game_state.active.scope = "hidden"
    /\ \E i \in DOMAIN ActiveCells(game_state) : ActiveCells(game_state)[i] \in UpperAZ
    /\ AllEmpty(After(Event("RESET", NoPayload)).hidden_cells)
    /\ After(Event("RESET", NoPayload)).active = DefaultActive
    /\ After(Event("RESET", NoPayload)).state_id # game_state.state_id

\* C17 as stated: the state reduce returns for a RESET event has
\* last_client_seq 0.
C17_Original ==
    CanReduce =>
        \A e \in PlainEvents({"RESET"}) : After(e).last_client_seq = 0

\* C17 amended: the state reduce returns for a RESET event has
\* last_client_seq 0 when the event carries no client_seq, a non-numeric one
\* or one that is not positive, and that client_seq when it is positive.
C17_ResetSeq ==
    CanReduce =>
        \A e \in PlainEvents({"RESET"}) :
            After(e).last_client_seq =
                IF e.payload.client_seq.tag = "int" /\ e.payload.client_seq.v > 0
                THEN e.payload.client_seq.v ELSE 0

\* With last_client_seq at 1, RESET without client_seq gives 0 and RESET
\* carrying client_seq 1 gives 1.
C17_Witness ==
    /\ CanReduce
    /\ game_state.last_client_seq = 1
    /\ After(Event("RESET", NoPayload)).last_client_seq = 0
    /\ After(Event("RESET", [NoPayload EXCEPT !.client_seq = IntV(1)])).last_client_seq = 1

\* The section 3 invariants of a state
CrossLinkSyncOf(state) ==
    \A p \in DOMAIN cross_map :
        Cell(state.grid_cells, p) = Cell(state.grid_cells, cross_map[p])

CursorValidOf(state) ==
    LET a == state.active
        of_scope == IF a.scope = "grid" THEN state.grid_cells ELSE state.hidden_cells
    IN  /\ a.scope \in {"grid", "hidden"}
        /\ a.bar_id \in DOMAIN of_scope
        /\ a.index \in DOMAIN of_scope[a.bar_id]

CellValues == UpperAZ \cup {""}

\* A GameState as the dataclass declares it, on the board of the live state
IsGameState(state) ==
    /\ DOMAIN state = DOMAIN game_state
    /\ SameShape(state.grid_cells, game_state.grid_cells)
    /\ SameShape(state.hidden_cells, game_state.hidden_cells)
    /\ \A b \in DOMAIN state.grid_cells : \A i \in DOMAIN state.grid_cells[b] :
          state.grid_cells[b][i] \in CellValues
    /\ \A b \in DOMAIN state.hidden_cells : \A i \in DOMAIN state.hidden_cells[b] :
          state.hidden_cells[b][i] \in CellValues
    /\ state.active.direction \in {"horizontal", "vertical"}
    /\ state.last_client_seq \in Int
    /\ state.puzzle_id = game_state.puzzle_id
    /\ state.clue_order = game_state.clue_order

\* Every event type, each event carrying a client_seq that is not a number:
\* SET_ACTIVE_BAR with an unknown or missing scope or bar id and an index that
\* is out of range or no integer, INPUT_LETTER with and without a letter, the
\* other recognized types and an unrecognized one
HostileEvents ==
    {e \in SetActiveBarEvents :
        /\ e.payload.client_seq = StrV(<<"x">>)
        /\ <<e.payload.scope, e.payload.bar_id>> \notin
              ({<<StrV("grid"), StrV(bid)>> : bid \in GridBarIds}
               \cup {<<StrV("hidden"), StrV("hidden1")>>, <<StrV("hidden"), StrV("hidden2")>>})
        /\ e.payload.index \in {IntV(-1), IntV(9), StrV(<<"x">>)}}
    \cup {e \in InputLetterEvents :
            /\ e.payload.client_seq = StrV(<<"x">>)
            /\ e.payload.letter # StrV(<<"Z">>)
            /\ e.payload.letter # StrV(<<" ", "z">>)}
    \cup {e \in PlainEvents({"MOVE_NEXT", "MOVE_PREV", "BACKSPACE", "RESET", "TICK"}
                             \cup UnknownTypes) :
            e.payload.client_seq = StrV(<<"x">>)}

\* C18: reduce returns a state for every event type, recognized or not, and
\* every payload (unknown bar id, unknown scope, out-of-range or non-integer
\* index, non-letter input, non-numeric client_seq), and that state is a
\* GameState in which the cross-linked positions agree and the cursor is valid.
C18_Total ==
    CanReduce =>
        \A e \in HostileEvents :
            LET out == After(e)
            IN  /\ IsGameState(out)
                /\ CrossLinkSyncOf(out)
                /\ CursorValidOf(out)

\* With the cursor in a hidden bar, events with an unknown bar id, a
\* non-integer index and a non-numeric client_seq, a non-letter input and an
\* unrecognized type are reduced to a fallback or to a state that differs in
\* last_action only.
C18_Witness ==
    /\ CanReduce
    /\ game_state.active.scope = "hidden"
    /\ game_state.last_client_seq = 1
    /\ After(Event("SET_ACTIVE_BAR",
                   [NoPayload EXCEPT !.scope = StrV("grid"), !.bar_id = StrV("zz"),
                                     !.index = StrV(<<"x">>),
                                     !.client_seq = StrV(<<"x">>)])).active = DefaultActive
    /\ After(Event("INPUT_LETTER", [NoPayload EXCEPT !.letter = StrV(<<"1">>)]))
          = [game_state EXCEPT !.last_action = "input:ignored"]
    /\ After(Event("FOO", [NoPayload EXCEPT !.client_seq = StrV(<<"x">>)]))
          = [game_state EXCEPT !.last_action = "ignored:FOO"]

PlayableCells == {<<r, c>> : r \in 0..(size - 1), c \in 0..(size - 1)}
                     \ {cell \in {<<r, c>> : r \in 0..(size - 1), c \in 0..(size - 1)} :
                            ~playable_mask[cell[1]][cell[2]]}

Crossings == {<<r, c>> : r \in {1, 3, 5}, c \in {1, 3, 5}}

\* C19: in the geometry build_grid_spec returns, every intersection cell has
\* exactly 2 owning bar positions, one horizontal and one vertical, and every
\* other playable cell exactly 1; cross_map is its own inverse and has no
\* fixed point; the intersection cells are exactly the 9 crossings of rows
\* {1,3,5} with columns {1,3,5}; every grid bar has length 7, in the geometry
\* and on the board made from it.
C19_Geometry ==
    /\ \A bid \in GridBarIds : LenL(game_state.grid_cells[bid]) = bar_lengths[bid]
    /\ PlayableCells = DOMAIN cell_to_positions
    /\ \A cell \in PlayableCells :
          LET pos_list == cell_to_positions[cell]
          IN  IF cell \in Crossings
              THEN /\ Len(pos_list) = 2
                   /\ {_bar_direction(pos_list[1][1]), _bar_direction(pos_list[2][1])}
                         = {"horizontal", "vertical"}
                   /\ pos_list[1] \in DOMAIN cross_map
                   /\ pos_list[2] \in DOMAIN cross_map
              ELSE /\ Len(pos_list) = 1
                   /\ pos_list[1] \notin DOMAIN cross_map
    /\ \A p \in DOMAIN cross_map :
          /\ cross_map[p] \in DOMAIN cross_map
          /\ cross_map[cross_map[p]] = p
          /\ cross_map[p] # p
          /\ bars[p[1]][p[2]] = bars[cross_map[p][1]][cross_map[p][2]]
    /\ Cardinality(Crossings) = 9
    /\ Crossings \subseteq PlayableCells
    /\ {bars[intersections[k][1]][intersections[k][2]] : k \in DOMAIN intersections}
          = Crossings
    /\ \A bid \in GridBarIds : bar_lengths[bid] = 7 /\ LenL(bars[bid]) = 7

\* The cursor is on an intersection whose two positions hold the letter just
\* written through cross_map, one on a horizontal and one on a vertical bar.
C19_Witness ==
    /\ game_state.active.scope = "grid"
    /\ game_state.active.index > 0
    /\ \E p \in DOMAIN cross_map :
          /\ p = <<game_state.active.bar_id, game_state.active.index - 1>>
          /\ cross_map[cross_map[p]] = p
          /\ _bar_direction(p[1]) # _bar_direction(cross_map[p][1])
          /\ game_state.grid_cells[p[1]][p[2]] \in UpperAZ
          /\ Cell(game_state.grid_cells, cross_map[p]) = game_state.grid_cells[p[1]][p[2]]

SomeCellEmpty(state) ==
    \/ \E bid \in DOMAIN state.grid_cells :
          \E i \in DOMAIN state.grid_cells[bid] : state.grid_cells[bid][i] = ""
    \/ \E hid \in DOMAIN state.hidden_cells :
          \E i \in DOMAIN state.hidden_cells[hid] : state.hidden_cells[hid][i] = ""

\* C20: is_complete is true iff no cell of a grid bar and no cell of a hidden
\* bar of the state is empty; it is false in the init state and right after
\* RESET.
C20_IsComplete ==
    /\ is_complete(game_state) <=> ~SomeCellEmpty(game_state)
    /\ game_state.last_action \in {"init", "reset"} => ~is_complete(game_state)
    /\ ~is_complete(After(Event("RESET", NoPayload)))

\* The board is complete: all six grid bars and two hidden bars hold letters.
C20_Witness ==
    /\ is_complete(game_state)
    /\ "hidden2" \in DOMAIN game_state.hidden_cells
    /\ \A bid \in GridBarIds : \A i \in 0..(size - 1) : game_state.grid_cells[bid][i] = "A"
    /\ game_state.hidden_cells["hidden2"][1] = "A"

\* The puzzle_id init_state gives a puzzle
PuzzleIdOf(puzzle) == IF puzzle.meta_id = Absent THEN puzzle.filename ELSE puzzle.meta_id.v

HiddenNames == <<"hidden1", "hidden2">>

EmptyList(n) == [i \in 0..(n - 1) |-> ""]

\* C21: the state init_state returns has the 6 grid bars, each as long as the
\* geometry's bar and empty; one hidden bar per hidden answer, named hidden1
\* (and hidden2) in order, each as long as its answer and empty; active
\* {grid, h1, 0, horizontal}; last_client_seq 0; clue_order h1, h2, h3, v1,
\* v2, v3 and then the hidden bars in creation order.
C21_InitState ==
    \A puzzle \in Puzzles :
        (game_state.last_action = "init" /\ game_state.puzzle_id = PuzzleIdOf(puzzle)) =>
            /\ DOMAIN game_state.grid_cells = {"h1", "h2", "h3", "v1", "v2", "v3"}
            /\ \A bid \in DOMAIN game_state.grid_cells :
                  game_state.grid_cells[bid] = EmptyList(LenL(bars[bid]))
            /\ DOMAIN game_state.hidden_cells
                  = {HiddenNames[i] : i \in DOMAIN puzzle.hidden}
            /\ \A i \in DOMAIN puzzle.hidden :
                  game_state.hidden_cells[HiddenNames[i]] = EmptyList(Len(puzzle.hidden[i]))
            /\ game_state.active = [scope |-> "grid", bar_id |-> "h1", index |-> 0,
                                    direction |-> "horizontal"]
            /\ game_state.last_client_seq = 0
            /\ [k \in DOMAIN game_state.clue_order |->
                    <<game_state.clue_order[k].scope, game_state.clue_order[k].bar_id>>]
                  = <<<<"grid", "h1">>, <<"grid", "h2">>, <<"grid", "h3">>,
                      <<"grid", "v1">>, <<"grid", "v2">>, <<"grid", "v3">>>>
                    \o [i \in DOMAIN puzzle.hidden |-> <<"hidden", HiddenNames[i]>>]
            /\ \A k \in DOMAIN game_state.clue_order :
                  game_state.clue_order[k].length
                      = IF k <= 6 THEN 7 ELSE Len(puzzle.hidden[k - 6])

\* The state init_state returned for the puzzle with two hidden answers, of
\* lengths 3 and 2.
C21_Witness ==
    /\ game_state.last_action = "init"
    /\ game_state.puzzle_id = "p2.json"
    /\ LenL(game_state.hidden_cells["hidden1"]) = 3
    /\ LenL(game_state.hidden_cells["hidden2"]) = 2
    /\ Len(game_state.clue_order) = 8

\* C25: derive_intersection_letters returns exactly 9 values, in the order
\* h1[1], h1[3], h1[5], h2[1], h2[3], h2[5], h3[1], h3[3], h3[5], each the
\* letter now in that cell or the empty string; and each value equals the
\* letter at the cross-linked position of the vertical bar.
C25_IntersectionLetters ==
    LET out == derive_intersection_letters(game_state)
        g == game_state.grid_cells
    IN  /\ DOMAIN out = 0..8
        /\ out = [k \in 0..8 |->
                    CASE k = 0 -> g["h1"][1] [] k = 1 -> g["h1"][3] [] k = 2 -> g["h1"][5]
                      [] k = 3 -> g["h2"][1] [] k = 4 -> g["h2"][3] [] k = 5 -> g["h2"][5]
                      [] k = 6 -> g["h3"][1] [] k = 7 -> g["h3"][3] [] k = 8 -> g["h3"][5]]
        /\ \A k \in 0..8 : out[k] \in UpperAZ \cup {""}
        /\ \A k \in 0..8 :
              out[k] = g[(<<"v1", "v2", "v3">>)[(k % 3) + 1]][2 * (k \div 3) + 1]

\* h1[3] holds A and h1[5] holds M: the second and third values are A and M,
\* as are v2[1] and v3[1]; h2[1] is empty.
C25_Witness ==
    /\ derive_intersection_letters(game_state)[1] = "A"
    /\ derive_intersection_letters(game_state)[2] = "M"
    /\ derive_intersection_letters(game_state)[3] = ""
    /\ game_state.grid_cells["v2"][1] = "A"
    /\ game_state.grid_cells["v3"][1] = "M"

\* C26: in every reachable state active.direction is horizontal when
\* active.bar_id is h1, h2, h3 or a hidden bar, and vertical when it is v1, v2
\* or v3.
C26_Direction ==
    /\ (game_state.active.bar_id \in {"h1", "h2", "h3"}
            \cup DOMAIN game_state.hidden_cells)
          => game_state.active.direction = "horizontal"
    /\ game_state.active.bar_id \in {"v1", "v2", "v3"}
          => game_state.active.direction = "vertical"

\* The cursor was put on v2 and a letter typed there.
C26_Witness ==
    /\ game_state.active.bar_id = "v2"
    /\ game_state.active.direction = "vertical"
    /\ game_state.active.index = 1
    /\ game_state.grid_cells["v2"][0] # ""

\* One event of every type but RESET, without client_seq
FrameEvents ==
    {e \in InputLetterEvents :
        e.payload.client_seq = Absent
        /\ e.payload.letter \in {StrV(<<"a">>), StrV(<<" ", "z">>), StrV(<<"1">>)}}
    \cup {e \in SetActiveBarEvents :
            /\ e.payload.client_seq = Absent /\ e.payload.index = Absent
            /\ e.payload.bar_id \in {StrV("v2"), StrV("hidden1"), StrV("zz")}
            /\ e.payload.scope \in {StrV("grid"), StrV("hidden")}}
    \cup {e \in PlainEvents({"MOVE_NEXT", "MOVE_PREV", "BACKSPACE", "TICK"} \cup UnknownTypes) :
            e.payload.client_seq = Absent}

\* The positions at which two cell maps of the same shape differ
Changed(new_cells, old_cells) ==
    {p \in (DOMAIN old_cells) \X (0..(size - 1)) :
        p[2] \in DOMAIN old_cells[p[1]] /\ new_cells[p[1]][p[2]] # old_cells[p[1]][p[2]]}

BarNo(bid) == CASE bid \in {"h1", "v1"} -> 1 [] bid \in {"h2", "v2"} -> 2 [] OTHER -> 3

\* The position that shares its cell with grid position p, read off the board:
\* bar number n crosses the other direction's bar number m at index 2m - 1
PartnerOf(p) ==
    IF p[2] \notin {1, 3, 5} THEN {}
    ELSE IF p[1] \in {"h1", "h2", "h3"}
    THEN {<<(<<"v1", "v2", "v3">>)[(p[2] + 1) \div 2], 2 * BarNo(p[1]) - 1>>}
    ELSE {<<(<<"h1", "h2", "h3">>)[(p[2] + 1) \div 2], 2 * BarNo(p[1]) - 1>>}

\* The position INPUT_LETTER writes (under the cursor) or BACKSPACE clears
\* (under the cursor if filled, else the one before)
EditedPosition(e) ==
    LET a == game_state.active
    IN  IF e.type = "INPUT_LETTER" \/ ActiveCells(game_state)[a.index] # ""
        THEN <<a.bar_id, a.index>> ELSE <<a.bar_id, a.index - 1>>

\* C27: a reduction other than RESET changes at most one cell position and
\* its cross_map partner.  MOVE_NEXT, MOVE_PREV, SET_ACTIVE_BAR, TICK and
\* unrecognized events change no cell; INPUT_LETTER and BACKSPACE change only
\* the written or cleared position of the active bar, and in grid scope its
\* partner; an edit in hidden scope changes no grid cell and an edit in grid
\* scope no hidden cell; every cell stays empty or one letter A-Z.
C27_EditFrame ==
    /\ \A b \in DOMAIN game_state.grid_cells : \A i \in DOMAIN game_state.grid_cells[b] :
          game_state.grid_cells[b][i] \in UpperAZ \cup {""}
    /\ \A b \in DOMAIN game_state.hidden_cells : \A i \in DOMAIN game_state.hidden_cells[b] :
          game_state.hidden_cells[b][i] \in UpperAZ \cup {""}
    /\ \A e \in FrameEvents :
        LET out == After(e)
            gch == Changed(out.grid_cells, game_state.grid_cells)
            hch == Changed(out.hidden_cells, game_state.hidden_cells)
            p == EditedPosition(e)
        IN  /\ SameShape(out.grid_cells, game_state.grid_cells)
            /\ SameShape(out.hidden_cells, game_state.hidden_cells)
            /\ e.type \notin {"INPUT_LETTER", "BACKSPACE"} => gch = {} /\ hch = {}
            /\ (e.type \in {"INPUT_LETTER", "BACKSPACE"} /\ game_state.active.scope = "hidden")
                  => gch = {} /\ hch \subseteq {p}
            /\ (e.type \in {"INPUT_LETTER", "BACKSPACE"} /\ game_state.active.scope = "grid")
                  => hch = {} /\ gch \subseteq ({p} \cup PartnerOf(p))
            /\ \A q \in gch : Cell(out.grid_cells, q) \in UpperAZ \cup {""}
            /\ \A q \in hch : Cell(out.hidden_cells, q) \in UpperAZ \cup {""}

\* The cursor is at the empty end of h1 with h1[5] and other cells of h1
\* filled: BACKSPACE steps back and changes exactly h1[5] and v3[1].
C27_Witness ==
    /\ game_state.active.bar_id = "h1"
    /\ game_state.active.index = 6
    /\ game_state.grid_cells["h1"][6] = ""
    /\ game_state.grid_cells["h1"][5] = "A"
    /\ game_state.grid_cells["h1"][4] = "A"
    /\ game_state.grid_cells["v3"][1] = "A"
    /\ Changed(After(Event("BACKSPACE", NoPayload)).grid_cells, game_state.grid_cells)
          = {<<"h1", 5>>, <<"v3", 1>>}

\* One event of every type, without client_seq
GenerationEvents ==
    {Event("INPUT_LETTER", [NoPayload EXCEPT !.letter = StrV(<<"a">>)]),
     Event("SET_ACTIVE_BAR", [NoPayload EXCEPT !.scope = StrV("hidden"),
                                                !.bar_id = StrV("zz")]),
     Event("SET_ACTIVE_BAR", [NoPayload EXCEPT !.scope = StrV("grid"),
                                                !.bar_id = StrV("v3"), !.index = IntV(9)])}
    \cup {Event(t, NoPayload) :
            t \in {"MOVE_NEXT", "MOVE_PREV", "BACKSPACE", "RESET", "TICK"} \cup UnknownTypes}

\* C28: state_id and start_time change only on RESET; no event of any type
\* changes puzzle_id, clue_order, the set of bar ids or the length of a bar.
C28_GenerationFrame ==
    CanReduce =>
        \A e \in GenerationEvents, now \in ClockFrom(game_state.start_time) :
            LET out == Reduced(e, now)
            IN  /\ e.type # "RESET" =>
                      /\ out.state_id = game_state.state_id
                      /\ out.start_time = game_state.start_time
                /\ out.puzzle_id = game_state.puzzle_id
                /\ out.clue_order = game_state.clue_order
                /\ SameShape(out.grid_cells, game_state.grid_cells)
                /\ SameShape(out.hidden_cells, game_state.hidden_cells)

\* A state of the second generation of the puzzle with two hidden bars, with
\* an event reduced since the RESET.
C28_Witness ==
    /\ game_state.state_id = 2
    /\ game_state.last_action \notin {"init", "reset"}
    /\ game_state.puzzle_id = "p2.json"
    /\ DOMAIN game_state.hidden_cells = {"hidden1", "hidden2"}
    /\ CanReduce

\* The states a run's Reset or Load puzzle button leaves when no component
\* event is reduced after it
FreshStates ==
    {reduce(game_state, Event("RESET", NoPayload), game_state.state_id + 1, now) :
        now \in ClockFrom(game_state.start_time)}
    \cup {init_state(chosen, game_state.state_id + 1, now) :
            chosen \in Puzzles, now \in ClockFrom(game_state.start_time)}

\* C22: an event whose payload state_id is present and differs from the
\* current state_id is not reduced and leaves the game state as it was; once
\* the state was reset, no event stamped with a state_id from before the reset
\* modifies the fresh state.
C22_StaleRejected ==
    [][LET ev == component_value'
       IN  (ev # None /\ ev.payload.state_id # Absent) =>
               /\ (steps' = steps + 1 /\ ev.payload.state_id.v # game_state.state_id)
                     => game_state' = game_state
               /\ (steps' = steps /\ game_state'.state_id # game_state.state_id)
                     => game_state' \in FreshStates]_vars

\* The second event of the session, an INPUT_LETTER stamped with state_id 1,
\* reached the script after a reset: it is the last event seen and the board
\* is as the reset left it.
C22_Witness ==
    /\ component_value # None
    /\ component_value.event_id = StrV("e2")
    /\ component_value.type = "INPUT_LETTER"
    /\ component_value.payload.state_id = IntV(1)
    /\ last_event_id = StrV("e2")
    /\ game_state.state_id = 2
    /\ game_state.last_action = "reset"
    /\ AllEmpty(game_state.grid_cells)

\* The marks a run may leave once it has cleared them: none, or those of a
\* check made later in the same run
MarksAfterClearing ==
    {NoMarks, _check_puzzle(session_puzzle', game_state'),
     _check_word(session_puzzle', game_state', NoMarks)}

\* C23: a run that reduces an INPUT_LETTER, BACKSPACE or RESET event of the
\* component clears the marks computed before it, and so does a run started by
\* the Reset button: no marks of an earlier check are left after an edit.
C23_MarksInvalidated ==
    [][LET ev == component_value'
       IN  /\ (/\ steps' = steps + 1
               /\ ev.schema_version = "crossword.v2"
               /\ ev.event_id \notin {Absent, StrV(""), last_event_id}
               /\ ev.payload.state_id \in {Absent, IntV(game_state.state_id)}
               /\ ev.type \in {"INPUT_LETTER", "BACKSPACE", "RESET"})
                 => marks' \in MarksAfterClearing
           /\ (steps' = steps /\ game_state'.state_id # game_state.state_id)
                 => marks' = NoMarks]_vars

\* A BACKSPACE of the component was reduced, clearing the letter before the
\* cursor, and the session holds no marks.
C23_Witness ==
    /\ component_value # None
    /\ component_value.type = "BACKSPACE"
    /\ last_event_id = component_value.event_id
    /\ game_state.last_action = "bksp:grid_prev_clear"
    /\ steps = 2
    /\ marks = NoMarks

\* C29 as stated: a run with no new input, in which the component hands over
\* the event whose event_id is the last one processed, does not reduce it
\* again, so that the game state is what the run's button alone makes of it;
\* and an event without event_id is never reduced.
C29_Original ==
    [][LET ev == component_value'
       IN  /\ (steps' = steps /\ ev # None /\ Truthy(ev.event_id)
                  /\ ev.event_id = last_event_id)
                 => game_state' \in {game_state} \cup FreshStates
           /\ (steps' = steps + 1 /\ ~Truthy(ev.event_id))
                 => game_state' = game_state]_vars

\* What a state reads: its three collections
Reads(state) ==
    [grid_cells |-> state.grid_cells, hidden_cells |-> state.hidden_cells,
     active |-> state.active]

\* C24: reduce never mutates the state it was given: whoever kept a reference
\* to a state handed to reduce reads the grid_cells, hidden_cells and active it
\* read then, after any number of later reductions and for every event type;
\* the state reduce returned reads as the result of the reduction.
C24_SnapshotImmutable ==
    /\ \A k \in DOMAIN snapshots : View(heap, snapshots[k].refs) = snapshots[k].read
    /\ View(heap, live) = Reads(game_state)

\* Two reductions later the first snapshot still reads empty although the
\* live state has the letter, and the two share the list of an untouched bar
C24_Witness ==
    /\ Len(snapshots) >= 2
    /\ snapshots[1].read.grid_cells["h1"][0] = ""
    /\ game_state.grid_cells["h1"][0] = "A"
    /\ snapshots[1].refs.grid_cells # live.grid_cells
    /\ heap[snapshots[1].refs.grid_cells]["h2"] = heap[live.grid_cells]["h2"]

====
